---- MODULE Spec2Model ----
(***************************************************************************)
(* Model of the product-selection state (src/lib/product-context.tsx), the *)
(* mock history collaborator (src/lib/serp-api.ts), the chart projection   *)
(* (src/components/PriceChart.tsx) and the Dashboard's derived prediction. *)
(*                                                                         *)
(* Numbers.  JavaScript numbers that may carry a decimal part are kept as  *)
(* fixed-point TENTHS: the price 999.5 is the integer 9995, the price 1000 *)
(* is 10000.  Percentages and counts are plain integers.                   *)
(* Strings are tuples of one-character strings, so that stripping,         *)
(* parsing and substring search are computed and not assumed.              *)
(* An optional value (T | null) is the empty tuple for null and <<v>> for  *)
(* a value v.                                                              *)
(***************************************************************************)
EXTENDS Integers, Sequences, FiniteSets, TLC

None == <<>>
Some(v) == <<v>>
Val(o) == o[1]

Max(a, b) == IF a >= b THEN a ELSE b
Min(a, b) == IF a <= b THEN a ELSE b
Abs(a) == IF a >= 0 THEN a ELSE -a

\* Math.round(n / d) for d > 0: floor(n/d + 1/2), halves go up.
RoundDiv(n, d) == (2 * n + d) \div (2 * d)

\* Math.round on a fixed-point value (tenths in, tenths out).
MathRound(x) == RoundDiv(x, 10) * 10

IsInteger(x) == x % 10 = 0

Last(s) == s[Len(s)]

RECURSIVE SumSeq(_)
SumSeq(s) == IF s = <<>> THEN 0 ELSE s[1] + SumSeq(Tail(s))

(***************************************************************************)
(* Bounds of the model.                                                    *)
(***************************************************************************)
\* startTracking asks for 60 days; the model asks for TrackingDays.
TrackingDays == 3
\* startTracking calls whose history fetch has not settled yet.
MaxPending == 2

(***************************************************************************)
(* Characters and price strings.                                           *)
(***************************************************************************)
Digits == {"0", "1", "2", "3", "4", "5", "6", "7", "8", "9"}

DigitVal(c) ==
  CASE c = "0" -> 0 [] c = "1" -> 1 [] c = "2" -> 2 [] c = "3" -> 3
    [] c = "4" -> 4 [] c = "5" -> 5 [] c = "6" -> 6 [] c = "7" -> 7
    [] c = "8" -> 8 [] c = "9" -> 9

\* priceStr.replace(/[^0-9.]/g, '')
RECURSIVE StripNonNumeric(_)
StripNonNumeric(s) ==
  IF s = <<>> THEN <<>>
  ELSE IF s[1] \in Digits \cup {"."}
       THEN <<s[1]>> \o StripNonNumeric(Tail(s))
       ELSE StripNonNumeric(Tail(s))

\* Length of the longest prefix of s made of digits only.
RECURSIVE DigitPrefixLen(_)
DigitPrefixLen(s) ==
  IF s = <<>> \/ s[1] \notin Digits THEN 0 ELSE 1 + DigitPrefixLen(Tail(s))

RECURSIVE DigitsToInt(_, _)
DigitsToInt(s, acc) ==
  IF s = <<>> THEN acc ELSE DigitsToInt(Tail(s), 10 * acc + DigitVal(s[1]))

\* parseFloat on a string of digits and dots: the longest prefix of the form
\* digits [ "." digits ] with at least one digit; NaN (None) when there is
\* none.  The result is in tenths: the price strings of the model carry at
\* most one significant decimal digit, further decimal digits being zeros.
ParseFloat(s) ==
  LET n == DigitPrefixLen(s)
      intPart == DigitsToInt(SubSeq(s, 1, n), 0)
      rest == SubSeq(s, n + 1, Len(s))
      hasDot == rest # <<>> /\ rest[1] = "."
      frac == IF hasDot THEN SubSeq(rest, 2, Len(rest)) ELSE <<>>
      m == DigitPrefixLen(frac)
  IN IF n = 0 /\ m = 0 THEN None
     ELSE Some(10 * intPart + (IF m > 0 THEN DigitVal(frac[1]) ELSE 0))

parsePriceToNumber(priceStr) ==
  IF priceStr = <<>> THEN None
  ELSE ParseFloat(StripNonNumeric(priceStr))

\* parseNum of handleSearch, applied to a string: 0 for an empty string and
\* for a string without a number, the rounded number otherwise.
parseNum(s) ==
  IF s = <<>> THEN 0
  ELSE LET n == ParseFloat(StripNonNumeric(s))
       IN IF n = None THEN 0 ELSE MathRound(Val(n))

(***************************************************************************)
(* Products offered by the search results.                                 *)
(***************************************************************************)
TitlePhone == <<"i", "P", "h", "o", "n", "e", " ", "1", "5">>
TitleNovel == <<"N", "o", "v", "e", "l">>
TitleTV == <<"S", "m", "a", "r", "t", " ", "T", "V">>

\* "₹89,999" (the rupee sign is written R)
PricePhone == <<"R", "8", "9", ",", "9", "9", "9">>
\* "₹99.50"
PriceNovel == <<"R", "9", "9", ".", "5", "0">>
\* 'Price not available', the string searchProducts substitutes for a
\* missing price
PriceMissing == <<"P", "r", "i", "c", "e", " ", "n", "o", "t", " ",
                  "a", "v", "a", "i", "l", "a", "b", "l", "e">>

Products ==
  { [title |-> TitlePhone, price |-> PricePhone],
    [title |-> TitleNovel, price |-> PriceNovel],
    [title |-> TitleTV, price |-> PriceMissing] }

Titles == { p.title : p \in Products }


(***************************************************************************)
(* Category classification (generatePriceData, generatePlatformPrices).    *)
(***************************************************************************)
CategoryTable ==
  << [keywords |-> <<<<"i", "p", "h", "o", "n", "e">>, <<"s", "a", "m", "s", "u", "n", "g">>>>, basePrice |-> 50000],
     [keywords |-> <<<<"m", "a", "c", "b", "o", "o", "k">>, <<"l", "a", "p", "t", "o", "p">>>>, basePrice |-> 80000],
     [keywords |-> <<<<"h", "e", "a", "d", "p", "h", "o", "n", "e">>, <<"e", "a", "r", "b", "u", "d">>>>, basePrice |-> 3000],
     [keywords |-> <<<<"w", "a", "t", "c", "h">>, <<"s", "m", "a", "r", "t", "w", "a", "t", "c", "h">>>>, basePrice |-> 15000],
     [keywords |-> <<<<"t", "a", "b", "l", "e", "t">>, <<"i", "p", "a", "d">>>>, basePrice |-> 25000],
     [keywords |-> <<<<"c", "a", "m", "e", "r", "a">>>>, basePrice |-> 20000],
     [keywords |-> <<<<"g", "a", "m", "i", "n", "g">>, <<"c", "o", "n", "s", "o", "l", "e">>>>, basePrice |-> 35000],
     [keywords |-> <<<<"t", "v">>, <<"t", "e", "l", "e", "v", "i", "s", "i", "o", "n">>>>, basePrice |-> 40000],
     [keywords |-> <<<<"b", "o", "o", "k">>, <<"n", "o", "v", "e", "l">>>>, basePrice |-> 500],
     [keywords |-> <<<<"s", "h", "i", "r", "t">>, <<"d", "r", "e", "s", "s">>>>, basePrice |-> 1500],
     [keywords |-> <<<<"s", "h", "o", "e">>, <<"s", "n", "e", "a", "k", "e", "r">>>>, basePrice |-> 2500],
     [keywords |-> <<<<"a", "i", "r", "p", "o", "d", "s">>, <<"w", "i", "r", "e", "l", "e", "s", "s">>>>, basePrice |-> 8000],
     [keywords |-> <<<<"m", "o", "n", "i", "t", "o", "r">>, <<"d", "i", "s", "p", "l", "a", "y">>>>, basePrice |-> 12000],
     [keywords |-> <<<<"k", "e", "y", "b", "o", "a", "r", "d">>, <<"m", "o", "u", "s", "e">>>>, basePrice |-> 2000],
     [keywords |-> <<<<"s", "p", "e", "a", "k", "e", "r">>, <<"s", "o", "u", "n", "d", "b", "a", "r">>>>, basePrice |-> 5000],
     [keywords |-> <<<<"f", "r", "i", "d", "g", "e">>, <<"r", "e", "f", "r", "i", "g", "e", "r", "a", "t", "o", "r">>>>, basePrice |-> 30000],
     [keywords |-> <<<<"w", "a", "s", "h", "i", "n", "g">>, <<"m", "a", "c", "h", "i", "n", "e">>>>, basePrice |-> 25000],
     [keywords |-> <<<<"m", "i", "c", "r", "o", "w", "a", "v", "e">>, <<"o", "v", "e", "n">>>>, basePrice |-> 8000],
     [keywords |-> <<<<"f", "u", "r", "n", "i", "t", "u", "r", "e">>, <<"s", "o", "f", "a">>>>, basePrice |-> 15000],
     [keywords |-> <<<<"t", "o", "y">>, <<"g", "a", "m", "e">>>>, basePrice |-> 800],
     [keywords |-> <<<<"c", "o", "s", "m", "e", "t", "i", "c">>, <<"b", "e", "a", "u", "t", "y">>>>, basePrice |-> 1200],
     [keywords |-> <<<<"f", "o", "o", "d">>, <<"s", "n", "a", "c", "k">>>>, basePrice |-> 200] >>
LowerOf(c) ==
  CASE c = "A" -> "a"
    [] c = "B" -> "b"
    [] c = "C" -> "c"
    [] c = "D" -> "d"
    [] c = "E" -> "e"
    [] c = "F" -> "f"
    [] c = "G" -> "g"
    [] c = "H" -> "h"
    [] c = "I" -> "i"
    [] c = "J" -> "j"
    [] c = "K" -> "k"
    [] c = "L" -> "l"
    [] c = "M" -> "m"
    [] c = "N" -> "n"
    [] c = "O" -> "o"
    [] c = "P" -> "p"
    [] c = "Q" -> "q"
    [] c = "R" -> "r"
    [] c = "S" -> "s"
    [] c = "T" -> "t"
    [] c = "U" -> "u"
    [] c = "V" -> "v"
    [] c = "W" -> "w"
    [] c = "X" -> "x"
    [] c = "Y" -> "y"
    [] c = "Z" -> "z"
    [] OTHER -> c


toLowerCase(s) == [i \in 1..Len(s) |-> LowerOf(s[i])]

\* String.prototype.includes
Includes(s, kw) ==
  \E i \in 1..(Len(s) - Len(kw) + 1) : SubSeq(s, i, i + Len(kw) - 1) = kw

RowMatches(row, name) ==
  \E k \in 1..Len(row.keywords) : Includes(toLowerCase(name), row.keywords[k])

MutClassifyLastMatch(name, r) ==
  LET M == { q \in r..Len(CategoryTable) : RowMatches(CategoryTable[q], name) }
  IN IF M = {} THEN 1000
     ELSE CategoryTable[CHOOSE q \in M : \A o \in M : o <= q].basePrice

\* The if / else-if chain: the first row that matches, 1000 when none does.
RECURSIVE ClassifyFrom(_, _)
ClassifyFrom(name, r) ==
  IF r > Len(CategoryTable) THEN 1000
  ELSE IF RowMatches(CategoryTable[r], name) THEN CategoryTable[r].basePrice
       ELSE ClassifyFrom(name, r + 1)

\* The chain of generatePlatformPrices (Dashboard), in its source order.
PlatformCategoryTable ==
  << [keywords |-> <<<<"i", "p", "h", "o", "n", "e">>, <<"s", "a", "m", "s", "u", "n", "g">>>>, basePrice |-> 50000],
     [keywords |-> <<<<"m", "a", "c", "b", "o", "o", "k">>, <<"l", "a", "p", "t", "o", "p">>>>, basePrice |-> 80000],
     [keywords |-> <<<<"h", "e", "a", "d", "p", "h", "o", "n", "e">>, <<"e", "a", "r", "b", "u", "d">>>>, basePrice |-> 3000],
     [keywords |-> <<<<"w", "a", "t", "c", "h">>, <<"s", "m", "a", "r", "t", "w", "a", "t", "c", "h">>>>, basePrice |-> 15000],
     [keywords |-> <<<<"t", "a", "b", "l", "e", "t">>, <<"i", "p", "a", "d">>>>, basePrice |-> 25000],
     [keywords |-> <<<<"c", "a", "m", "e", "r", "a">>>>, basePrice |-> 20000],
     [keywords |-> <<<<"g", "a", "m", "i", "n", "g">>, <<"c", "o", "n", "s", "o", "l", "e">>>>, basePrice |-> 35000],
     [keywords |-> <<<<"t", "v">>, <<"t", "e", "l", "e", "v", "i", "s", "i", "o", "n">>>>, basePrice |-> 40000],
     [keywords |-> <<<<"b", "o", "o", "k">>, <<"n", "o", "v", "e", "l">>>>, basePrice |-> 500],
     [keywords |-> <<<<"s", "h", "i", "r", "t">>, <<"d", "r", "e", "s", "s">>>>, basePrice |-> 1500],
     [keywords |-> <<<<"s", "h", "o", "e">>, <<"s", "n", "e", "a", "k", "e", "r">>>>, basePrice |-> 2500],
     [keywords |-> <<<<"a", "i", "r", "p", "o", "d", "s">>, <<"w", "i", "r", "e", "l", "e", "s", "s">>>>, basePrice |-> 8000],
     [keywords |-> <<<<"m", "o", "n", "i", "t", "o", "r">>, <<"d", "i", "s", "p", "l", "a", "y">>>>, basePrice |-> 12000],
     [keywords |-> <<<<"k", "e", "y", "b", "o", "a", "r", "d">>, <<"m", "o", "u", "s", "e">>>>, basePrice |-> 2000],
     [keywords |-> <<<<"s", "p", "e", "a", "k", "e", "r">>, <<"s", "o", "u", "n", "d", "b", "a", "r">>>>, basePrice |-> 5000],
     [keywords |-> <<<<"f", "r", "i", "d", "g", "e">>, <<"r", "e", "f", "r", "i", "g", "e", "r", "a", "t", "o", "r">>>>, basePrice |-> 30000],
     [keywords |-> <<<<"w", "a", "s", "h", "i", "n", "g">>, <<"m", "a", "c", "h", "i", "n", "e">>>>, basePrice |-> 25000],
     [keywords |-> <<<<"m", "i", "c", "r", "o", "w", "a", "v", "e">>, <<"o", "v", "e", "n">>>>, basePrice |-> 8000],
     [keywords |-> <<<<"f", "u", "r", "n", "i", "t", "u", "r", "e">>, <<"s", "o", "f", "a">>>>, basePrice |-> 15000],
     [keywords |-> <<<<"t", "o", "y">>, <<"g", "a", "m", "e">>>>, basePrice |-> 800],
     [keywords |-> <<<<"c", "o", "s", "m", "e", "t", "i", "c">>, <<"b", "e", "a", "u", "t", "y">>>>, basePrice |-> 1200],
     [keywords |-> <<<<"f", "o", "o", "d">>, <<"s", "n", "a", "c", "k">>>>, basePrice |-> 200] >>

RECURSIVE ClassifyPlatformFrom(_, _)
ClassifyPlatformFrom(name, r) ==
  IF r > Len(PlatformCategoryTable) THEN 1000
  ELSE IF RowMatches(PlatformCategoryTable[r], name)
       THEN PlatformCategoryTable[r].basePrice
       ELSE ClassifyPlatformFrom(name, r + 1)

\* The product names the model classifies: the titles of the search results
\* and the Dashboard's default product.
TitleDefault == <<"M", "a", "c", "B", "o", "o", "k", " ", "A", "i", "r", " ", "M", "3">>
KnownNames == Titles \cup {TitleDefault}

\* The classification of each known name, computed once.
BasePriceTable == [name \in KnownNames |-> ClassifyFrom(name, 1)]

BasePriceOf(name) == BasePriceTable[name]

PlatformBasePriceTable == [name \in KnownNames |-> ClassifyPlatformFrom(name, 1)]

PlatformBasePriceOf(name) == PlatformBasePriceTable[name]

(***************************************************************************)
(* Random draws.  Math.random() is a nondeterministic choice; each place   *)
(* that draws takes its value from a small set of representative draws.    *)
(***************************************************************************)
\* Math.floor(Math.random() * 50000) in getPriceHistory
BaseDraws == {0}
\* Math.floor(Math.random() * 1000) in getPriceHistory: the lowest and the
\* highest draw.  A series takes its per-day draws from the patterns with at
\* most one switch between the two (flat, one step up, one step down).
JitterLow == 0
JitterHigh == 999
JitterPatterns(n) ==
  { [k \in 1..n |-> IF k <= c THEN a ELSE b] :
      c \in 1..n, a \in {JitterLow, JitterHigh}, b \in {JitterLow, JitterHigh} }
\* generatePriceData: the draw of (Math.random() - 0.5) * 0.3 used for the
\* historical months and of (Math.random() - 0.5) * 0.1 used for the
\* prediction months, both in percent.
ChartDraws == { [hv |-> -15, pj |-> -5], [hv |-> 14, pj |-> 4] }
\* projectFromHistory without a target: (Math.random() - 0.5) * 0.02, in per mille
ProjJitterDraws == {-10, 9}
\* generatePredictionData: the draw of (Math.random() - 0.5) * 0.2 of the first
\* platform price, in percent, and the expectedChange drawn with the trend:
\* -(5..20) for "fall", 2..12 for "rise", 0 for "stable".
PredictionDraws ==
  { [variation |-> -10, expectedChange |-> -20],
    [variation |-> 0, expectedChange |-> 0],
    [variation |-> 9, expectedChange |-> 12] }
\* Math.round(Math.random() * 20) + 70 and the timeframe draw
ConfidenceDraws == {70}
TimeframeDraws == {"2 weeks"}

(***************************************************************************)
(* History collaborator: SerpApiService.getPriceHistory.                   *)
(* A date is a day number relative to the day of the call (0 = today).     *)
(* Each point also carries a random volume, which no caller reads.         *)
(***************************************************************************)
MutGetPriceHistoryNoFloor(days, baseDraw, jitter) ==
  LET basePrice == baseDraw
  IN [k \in 1..(days + 1) |->
        [date |-> -(days - (k - 1)),
         price |-> 10 * (basePrice + jitter[k] - 500)]]

getPriceHistory(days, baseDraw, jitter) ==
  LET basePrice == baseDraw + 20000
  IN [k \in 1..(days + 1) |->
        [date |-> -(days - (k - 1)),
         price |-> 10 * (basePrice + jitter[k] - 500)]]

HistoryResults(days) ==
  { getPriceHistory(days, b, j) : b \in BaseDraws, j \in JitterPatterns(days + 1) }

(***************************************************************************)
(* startTracking: the mapping and the reconciliation of a fetched series.  *)
(***************************************************************************)
\* history.map(h => ({date, price: Math.max(0, Math.round(h.price))}))
MapFetched(history) ==
  [k \in 1..Len(history) |->
     [date |-> history[k].date, price |-> Max(0, MathRound(history[k].price))]]

MutReconcileNoOverwrite(mapped, parsed) ==
  IF parsed # None /\ Len(mapped) > 0
  THEN LET offset == Val(parsed) - Last(mapped).price
       IN [k \in 1..Len(mapped) |->
             [date |-> mapped[k].date,
              price |-> Max(0, MathRound(mapped[k].price + offset))]]
  ELSE mapped

MutReconcileNoClamp(mapped, parsed) ==
  IF parsed # None /\ Len(mapped) > 0
  THEN LET offset == Val(parsed) - Last(mapped).price
       IN [k \in 1..Len(mapped) |->
             [date |-> mapped[k].date,
              price |-> IF k = Len(mapped) THEN Val(parsed)
                        ELSE MathRound(mapped[k].price + offset)]]
  ELSE mapped

MutReconcileOverwriteOld(mapped, parsed) ==
  IF parsed # None /\ Len(mapped) > 0
  THEN LET lastPrice == Last(mapped).price
           offset == Val(parsed) - lastPrice
       IN [k \in 1..Len(mapped) |->
             [date |-> mapped[k].date,
              price |-> IF k = Len(mapped) THEN lastPrice
                        ELSE Max(0, MathRound(mapped[k].price + offset))]]
  ELSE mapped

MutReconcileAlways(mapped, parsed) ==
  IF Len(mapped) > 0
  THEN LET cur == IF parsed # None THEN Val(parsed) ELSE 0
           offset == cur - Last(mapped).price
       IN [k \in 1..Len(mapped) |->
             [date |-> mapped[k].date,
              price |-> IF k = Len(mapped) THEN cur
                        ELSE Max(0, MathRound(mapped[k].price + offset))]]
  ELSE mapped

\* Lines 69-76: shift by the offset to the parsed price, clamp and round,
\* then overwrite the last point with the parsed price.
Reconcile(mapped, parsed) ==
  IF parsed # None /\ Len(mapped) > 0
  THEN LET lastPrice == Last(mapped).price
           offset == Val(parsed) - lastPrice
       IN [k \in 1..Len(mapped) |->
             [date |-> mapped[k].date,
              price |-> IF k = Len(mapped) THEN Val(parsed)
                        ELSE Max(0, MathRound(mapped[k].price + offset))]]
  ELSE mapped

MutFallbackDaily(parsed) ==
  [k \in 1..6 |->
     [date |-> -(6 - k),
      price |-> IF parsed # None /\ Val(parsed) # 0 THEN Val(parsed) ELSE 0]]

\* The catch block: six points a week apart, at parsed || 0.
FallbackHistory(parsed) ==
  [k \in 1..6 |->
     [date |-> -((6 - k) * 7),
      price |-> IF parsed # None /\ Val(parsed) # 0 THEN Val(parsed) ELSE 0]]


(***************************************************************************)
(* PriceChart: generatePriceData and projectFromHistory.                   *)
(* A chart point is [date, price, prediction] with optional price and      *)
(* prediction.                                                             *)
(***************************************************************************)
months == <<"Jan", "Feb", "Mar", "Apr", "May", "Jun",
            "Jul", "Aug", "Sep", "Oct", "Nov", "Dec">>
historicalMonths == SubSeq(months, 1, 8)
predictionMonths == SubSeq(months, 9, 12)

\* The random walk of the 8 historical months; hv[k] is the k-th variation
\* draw in percent.  Prices are whole units here (basePrice is an integer).
RECURSIVE WalkPrice(_, _, _)
WalkPrice(basePrice, hv, k) ==
  IF k = 0 THEN basePrice
  ELSE RoundDiv(WalkPrice(basePrice, hv, k - 1) * (100 + hv[k]), 100)

MutGeneratePriceDataDefaultBase(productName, hv, pj) ==
  LET basePrice == 1000
      currentPrice == WalkPrice(basePrice, hv, 8)
  IN [k \in 1..12 |->
        IF k <= 8
        THEN [date |-> historicalMonths[k],
              price |-> Some(10 * WalkPrice(basePrice, hv, k)),
              prediction |-> None]
        ELSE [date |-> predictionMonths[k - 8],
              price |-> None,
              prediction |->
                Some(10 * RoundDiv(currentPrice * (100 - 2 * (k - 8) + pj[k - 8]), 100))]]

generatePriceData(productName, hv, pj) ==
  LET basePrice == BasePriceOf(productName)
      currentPrice == WalkPrice(basePrice, hv, 8)
  IN [k \in 1..12 |->
        IF k <= 8
        THEN [date |-> historicalMonths[k],
              price |-> Some(10 * WalkPrice(basePrice, hv, k)),
              prediction |-> None]
        ELSE [date |-> predictionMonths[k - 8],
              price |-> None,
              prediction |->
                Some(10 * RoundDiv(currentPrice * (100 - 2 * (k - 8) + pj[k - 8]), 100))]]

\* history.slice(-8), history.slice(-6)
SliceLast(s, n) == IF Len(s) <= n THEN s ELSE SubSeq(s, Len(s) - n + 1, Len(s))

\* prices.map((p, i) => (i === 0 ? 0 : p - prices[i - 1])).slice(1)
Diffs(prices) == [i \in 1..(Len(prices) - 1) |-> prices[i + 1] - prices[i]]
DiffSum(prices) == SumSeq(Diffs(prices))
DiffCount(prices) == Len(Diffs(prices))

MutProjStepFixedThird(current, i, target, prices, jitter) ==
  IF target # None /\ Val(target) >= 0
  THEN Max(0, 10 * RoundDiv(2 * current + Val(target), 10 * 3))
  ELSE current

MutProjStepFromLast(current, i, target, prices, jitter) ==
  IF target # None /\ Val(target) >= 0
  THEN Max(0, 10 * RoundDiv(current * (4 - i) + Val(target) - Last(prices), 10 * (4 - i)))
  ELSE current

MutProjStepJump(current, i, target, prices, jitter) ==
  IF target # None /\ Val(target) >= 0
  THEN Max(0, MathRound(Val(target)))
  ELSE current

\* One iteration of the forecast loop: the value after step i (1..3),
\* from the value before it.  In tenths; the result is a whole number.
ProjStep(current, i, target, prices, jitter) ==
  IF target # None /\ Val(target) >= 0
  THEN \* current + (target - current) / (4 - i)
       Max(0, 10 * RoundDiv(current * (3 - i) + Val(target), 10 * (4 - i)))
  ELSE \* Math.round(current + avgStep * 0.8 + (random - 0.5) * |avg| * 0.02),
       \* exactly: floor(current + 1/2 + a + b) in whole units, where
       \* a = 8 * sum(diffs) / (100 n) and b = jitter * |sum(prices)| / (10000 m);
       \* each term is split into its integer part and its remainder.
       LET n == Max(1, DiffCount(prices))
           m == Len(prices)
           q == (current + 5) \div 10
           r == (current + 5) % 10
           qa == (8 * DiffSum(prices)) \div (100 * n)
           ra == (8 * DiffSum(prices)) % (100 * n)
           qb == (jitter * Abs(SumSeq(prices))) \div (10000 * m)
           rb == (jitter * Abs(SumSeq(prices))) % (10000 * m)
           carry == (r * 1000 * n * m + ra * 100 * m + rb * n) \div (10000 * n * m)
       IN Max(0, 10 * (q + qa + qb + carry))

RECURSIVE ProjValue(_, _, _, _, _)
ProjValue(last, i, target, prices, jitter) ==
  IF i = 0 THEN last
  ELSE ProjStep(ProjValue(last, i - 1, target, prices, jitter), i, target, prices, jitter[i])

MutProjectLabelsFromLast(history, target, jitter) ==
  IF Len(history) = 0 THEN <<>>
  ELSE
    LET recent == SliceLast(history, 8)
        prices == [k \in 1..Len(recent) |-> recent[k].price]
        nHist == Min(Len(recent), 12)
        historical == [k \in 1..nHist |->
                         [date |-> months[k], price |-> Some(recent[k].price),
                          prediction |-> None]]
        nPred == Max(0, Min(3, 12 - nHist))
        preds == [i \in 1..nPred |->
                    [date |-> months[nHist + i - 1], price |-> None,
                     prediction |-> Some(ProjValue(Last(prices), i, target, prices, jitter))]]
    IN historical \o preds

projectFromHistory(history, target, jitter) ==
  IF Len(history) = 0 THEN <<>>
  ELSE
    LET recent == SliceLast(history, 8)
        prices == [k \in 1..Len(recent) |-> recent[k].price]
        nHist == Min(Len(recent), 12)
        historical == [k \in 1..nHist |->
                         [date |-> months[k], price |-> Some(recent[k].price),
                          prediction |-> None]]
        last == Last(prices)
        nPred == Max(0, Min(3, 12 - nHist))
        preds == [i \in 1..nPred |->
                    [date |-> months[nHist + i], price |-> None,
                     prediction |-> Some(ProjValue(last, i, target, prices, jitter))]]
    IN historical \o preds

\* The prediction values of a chart series, in order.
Predictions(data) ==
  LET idx == { k \in 1..Len(data) : data[k].prediction # None }
      f[k \in 0..Len(data)] ==
        IF k = 0 THEN <<>>
        ELSE IF k \in idx THEN Append(f[k - 1], Val(data[k].prediction))
             ELSE f[k - 1]
  IN f[Len(data)]

(***************************************************************************)
(* Dashboard: generatePlatformPrices, generatePredictionData and the       *)
(* predictionData memo.                                                    *)
(***************************************************************************)
\* selectedProduct.trim().length > 0
isProductSelectedOf(name) == \E i \in 1..Len(name) : name[i] # " "

\* generatePlatformPrices(name)[0].price, in whole units
FirstPlatformPrice(name, variation) ==
  RoundDiv(PlatformBasePriceOf(name) * (100 + variation), 100)

generatePredictionData(name, variation, expectedChange, confidence, timeframe) ==
  LET p == FirstPlatformPrice(name, variation)
      basePrice == IF p # 0 THEN p ELSE 1000
  IN [prediction |-> IF expectedChange < 0 THEN "fall"
                     ELSE IF expectedChange > 0 THEN "rise" ELSE "stable",
      confidence |-> confidence,
      expectedChange |-> expectedChange,
      timeframe |-> timeframe,
      currentPrice |-> 10 * basePrice,
      targetPrice |-> 10 * RoundDiv(basePrice * (100 + expectedChange), 100)]

MutDerivedPredictionUnbounded(history) ==
  LET recent == SliceLast(history, 6)
      prices == [k \in 1..Len(recent) |-> recent[k].price]
      n == DiffCount(prices)
      last == Last(prices)
      boundedChange ==
        IF n = 0 THEN 0 ELSE RoundDiv(DiffSum(prices) * 100, n * Max(10, last))
  IN [prediction |-> IF boundedChange > 2 THEN "rise"
                     ELSE IF boundedChange < -2 THEN "fall" ELSE "stable",
      confidence |-> Max(65, Min(92, 80 - Abs(boundedChange - 3))),
      expectedChange |-> boundedChange,
      timeframe |-> IF Abs(boundedChange) > 5 THEN "2 weeks" ELSE "1 month",
      currentPrice |-> last,
      targetPrice |-> Max(0, 10 * RoundDiv(last * (100 + boundedChange), 1000))]

\* The branch of predictionData taken when priceHistory.length > 3.
DerivedPrediction(history) ==
  LET recent == SliceLast(history, 6)
      prices == [k \in 1..Len(recent) |-> recent[k].price]
      n == DiffCount(prices)
      last == Last(prices)
      expectedChangePct ==
        IF n = 0 THEN 0 ELSE RoundDiv(DiffSum(prices) * 100, n * Max(10, last))
      boundedChange == Max(-15, Min(12, expectedChangePct))
  IN [prediction |-> IF boundedChange > 2 THEN "rise"
                     ELSE IF boundedChange < -2 THEN "fall" ELSE "stable",
      confidence |-> Max(65, Min(92, 80 - Abs(boundedChange - 3))),
      expectedChange |-> boundedChange,
      timeframe |-> IF Abs(boundedChange) > 5 THEN "2 weeks" ELSE "1 month",
      currentPrice |-> last,
      targetPrice |-> Max(0, 10 * RoundDiv(last * (100 + boundedChange), 1000))]

\* The values the predictionData memo can take for a selection.
PredictionDataOf(name, history) ==
  IF isProductSelectedOf(name) /\ Len(history) > 3
  THEN { DerivedPrediction(history) }
  ELSE LET n == IF name = <<>> \/ ~isProductSelectedOf(name) THEN TitleDefault ELSE name
       IN { generatePredictionData(n, d.variation, d.expectedChange, c, t) :
              d \in PredictionDraws, c \in ConfidenceDraws, t \in TimeframeDraws }

\* const currentProduct = selectedProduct || "MacBook Air M3"
CurrentProductOf(name) == IF name = <<>> THEN TitleDefault ELSE name

MutPriceDataIgnoreTarget(productName, history, target) ==
  IF Len(history) > 0
  THEN { projectFromHistory(history, None, [i \in 1..3 |-> j]) : j \in ProjJitterDraws }
  ELSE { generatePriceData(productName, [k \in 1..8 |-> d.hv], [k \in 1..4 |-> d.pj]) :
           d \in ChartDraws }

MutPriceDataProjectOnly(productName, history, target) ==
  { projectFromHistory(history, Some(target), [i \in 1..3 |-> j]) : j \in ProjJitterDraws }

\* The values the priceData memo of PriceChart can take for its props.
PriceDataOf(productName, history, target) ==
  IF Len(history) > 0
  THEN { projectFromHistory(history, Some(target), [i \in 1..3 |-> j]) : j \in ProjJitterDraws }
  ELSE { generatePriceData(productName, [k \in 1..8 |-> d.hv], [k \in 1..4 |-> d.pj]) :
           d \in ChartDraws }


(***************************************************************************)
(* State.                                                                  *)
(***************************************************************************)
VARIABLES
  selectedProduct,         \* useState<string>("")
  selectedProductDetails,  \* useState<SerpProduct | null>(null)
  currentPrice,            \* useState<number | null>(null), tenths
  priceHistory,            \* useState<Array<{date, price}>>([])
  lastUpdated,             \* useState<string | null>(null)
  pending,                 \* startTracking calls suspended at the await
  predictionData,          \* Dashboard's useMemo
  priceData,               \* PriceChart's useMemo
  lastOp,                  \* history variable: the last action and its inputs
  cleared,                 \* history variable: no selection action since a clear
  historyOf,               \* history variable: the product whose call stored priceHistory
  overlapped,              \* history variable: the last startTracking began while another was suspended
  projIn,                  \* arguments of a projectFromHistory call
  projOut,                 \* its result
  parseIn,                 \* argument of a parsePriceToNumber call
  parseOut,                \* its result
  useMockData,             \* SerpApiService: no API key is configured
  searches,                \* the handleSearch calls, in the order they started
  searchResults,           \* useState<SerpProduct[]>([])
  smartAnalysis,           \* useState<SmartSearchResult | null>(null)
  platformOffers,          \* window.__platformOffers
  isSearching,             \* useState(false)
  isAnalyzing,             \* useState(false)
  searchHistory,           \* useState<string[]>([])
  query,                   \* useState("")
  fnIn,                    \* a call of a generator: the function and its arguments
  fnOut,                   \* its result
  chat,                    \* AiChatAssistant: the state of one mounted instance
  gemini                   \* GeminiAiService: the singleton and its requests

selectionVars == <<selectedProduct, selectedProductDetails, currentPrice,
                   priceHistory, lastUpdated>>
dashboardVars == <<predictionData, priceData>>
auxVars == <<lastOp, cleared, historyOf, overlapped>>
projVars == <<projIn, projOut>>
parseVars == <<parseIn, parseOut>>
searchVars == <<useMockData, searches, searchResults, smartAnalysis,
                platformOffers, isSearching, isAnalyzing, searchHistory, query>>
fnVars == <<fnIn, fnOut>>
standaloneVars == <<fnVars, chat, gemini>>
vars == <<selectionVars, pending, dashboardVars, auxVars, projVars, parseVars,
          searchVars, standaloneVars>>

Timestamp == Some("now")

Op(name, product, parsed, fetched) ==
  [op |-> name, product |-> product, parsed |-> parsed, fetched |-> fetched]

\* The re-render that follows a state update: each memo is recomputed when
\* one of its dependencies changed.  histSet says that setPriceHistory was
\* called (a new array, hence a changed dependency).
Rerender(histSet) ==
  /\ predictionData' \in
       IF selectedProduct' # selectedProduct \/ histSet
       THEN PredictionDataOf(selectedProduct', priceHistory')
       ELSE {predictionData}
  /\ priceData' \in
       IF \/ CurrentProductOf(selectedProduct') # CurrentProductOf(selectedProduct)
          \/ histSet
          \/ predictionData'.targetPrice # predictionData.targetPrice
       THEN PriceDataOf(CurrentProductOf(selectedProduct'), priceHistory',
                        predictionData'.targetPrice)
       ELSE {priceData}

SelectionInit ==
  /\ selectedProduct = <<>>
  /\ selectedProductDetails = None
  /\ currentPrice = None
  /\ priceHistory = <<>>
  /\ lastUpdated = None
  /\ pending = <<>>
  /\ predictionData \in PredictionDataOf(<<>>, <<>>)
  /\ priceData \in PriceDataOf(TitleDefault, <<>>, predictionData.targetPrice)
  /\ lastOp = Op("init", None, None, <<>>)
  /\ cleared = FALSE
  /\ historyOf = None
  /\ overlapped = FALSE

\* No call of a function checked on its own is under way.
ParseIdle == parseIn = None /\ parseOut = <<>>

\* The chat assistant as mounted: closed, no message, nothing typed.
ChatInitial ==
  [isOpen |-> FALSE, messages |-> <<>>, inputMessage |-> <<>>,
   isLoading |-> FALSE, isTyping |-> FALSE, awaiting |-> 0, lastSend |-> "none"]

\* The Gemini service constructed without a valid key: mock mode, no
\* request made.
GeminiInitial == [useMockData |-> TRUE, calls |-> <<>>]

\* No generator call is under way, the chat and the Gemini service are as
\* constructed.
StandaloneIdle ==
  /\ fnIn = None
  /\ fnOut = <<>>
  /\ chat = ChatInitial
  /\ gemini = GeminiInitial

\* The search bar before any search.
SearchIdle ==
  /\ searches = <<>>
  /\ searchResults = [search |-> 0, products |-> <<>>]
  /\ smartAnalysis = None
  /\ platformOffers = None
  /\ isSearching = FALSE
  /\ isAnalyzing = FALSE
  /\ searchHistory = <<>>
  /\ query = <<>>

Init ==
  /\ SelectionInit
  /\ projIn = None
  /\ projOut = <<>>
  /\ ParseIdle
  /\ useMockData = TRUE
  /\ SearchIdle
  /\ StandaloneIdle

(***************************************************************************)
(* Actions of the ProductProvider.                                         *)
(***************************************************************************)
\* startTracking up to the await of getPriceHistory.
StartTracking(product) ==
  LET parsed == parsePriceToNumber(product.price)
  IN /\ Len(pending) < MaxPending
     /\ selectedProduct' = product.title
     /\ selectedProductDetails' = Some(product)
     /\ currentPrice' = IF parsed # None THEN parsed ELSE currentPrice
     /\ pending' = Append(pending, [product |-> product, parsed |-> parsed])
     /\ UNCHANGED <<priceHistory, lastUpdated, historyOf>>
     /\ lastOp' = Op("start", Some(product), parsed, <<>>)
     /\ cleared' = FALSE
     /\ overlapped' = (Len(pending) > 0)
     /\ Rerender(FALSE)
     /\ UNCHANGED <<projVars, parseVars, searchVars, standaloneVars>>

RemoveAt(s, k) == SubSeq(s, 1, k - 1) \o SubSeq(s, k + 1, Len(s))

\* The history fetch of the k-th suspended call resolves with a series.
ResolveHistory(k, history) ==
  LET call == pending[k]
      mapped == MapFetched(history)
      adjusted == Reconcile(mapped, call.parsed)
  IN /\ priceHistory' = adjusted
     /\ lastUpdated' = Timestamp
     /\ pending' = RemoveAt(pending, k)
     /\ UNCHANGED <<selectedProduct, selectedProductDetails, currentPrice, cleared, overlapped>>
     /\ lastOp' = Op("resolve", Some(call.product), call.parsed, history)
     /\ historyOf' = Some(call.product)
     /\ Rerender(TRUE)
     /\ UNCHANGED <<projVars, parseVars, searchVars, standaloneVars>>

\* The try block of the k-th suspended call throws: the catch block runs.
RejectHistory(k) ==
  LET call == pending[k]
  IN /\ priceHistory' = FallbackHistory(call.parsed)
     /\ lastUpdated' = Timestamp
     /\ pending' = RemoveAt(pending, k)
     /\ UNCHANGED <<selectedProduct, selectedProductDetails, currentPrice, cleared, overlapped>>
     /\ lastOp' = Op("reject", Some(call.product), call.parsed, <<>>)
     /\ historyOf' = Some(call.product)
     /\ Rerender(TRUE)
     /\ UNCHANGED <<projVars, parseVars, searchVars, standaloneVars>>

\* The raw state setter exported by the context.
SetSelectedProduct(name) ==
  /\ selectedProduct' = name
  /\ UNCHANGED <<selectedProductDetails, currentPrice, priceHistory, lastUpdated,
                 pending, historyOf, overlapped>>
  /\ lastOp' = Op("set", None, None, <<>>)
  /\ cleared' = FALSE
  /\ Rerender(FALSE)
  /\ UNCHANGED <<projVars, parseVars, searchVars, standaloneVars>>

\* The five setters of clearSelectedProduct and the re-render.
ClearSelection ==
  /\ selectedProduct' = <<>>
  /\ selectedProductDetails' = None
  /\ currentPrice' = None
  /\ priceHistory' = <<>>
  /\ lastUpdated' = None
  /\ UNCHANGED <<pending, overlapped>>
  /\ lastOp' = Op("clear", None, None, <<>>)
  /\ cleared' = TRUE
  /\ historyOf' = None
  /\ Rerender(TRUE)

ClearSelectedProduct ==
  /\ ClearSelection
  /\ UNCHANGED <<projVars, parseVars, searchVars, standaloneVars>>

Start == \E product \in Products : StartTracking(product)
Resolve == \E k \in 1..Len(pending) : \E h \in HistoryResults(TrackingDays) : ResolveHistory(k, h)
Reject == \E k \in 1..Len(pending) : RejectHistory(k)
SetName == \E name \in Titles : SetSelectedProduct(name)
Clear == ClearSelectedProduct

Next == Start \/ Resolve \/ Reject \/ SetName \/ Clear

Spec == Init /\ [][Next]_vars

\* Run to completion: a UI action starts only when no call is suspended.
Idle == pending = <<>>
SerialStart == Idle /\ Start
SerialResolve == Resolve
SerialReject == Reject
SerialSetName == Idle /\ SetName
SerialClear == Idle /\ Clear

SerialNext == SerialStart \/ SerialResolve \/ SerialReject \/ SerialSetName \/ SerialClear

SerialSpec == Init /\ [][SerialNext]_vars

\* The history collaborator seen as any implementation of its interface: it
\* may also resolve with an empty list.
FetchResults == HistoryResults(TrackingDays) \cup {<<>>}
FetchResolve ==
  \E k \in 1..Len(pending) : \E h \in FetchResults : ResolveHistory(k, h)

FetchNext == SerialStart \/ FetchResolve \/ SerialReject \/ SerialSetName \/ SerialClear

FetchSpec == Init /\ [][FetchNext]_vars


(***************************************************************************)
(* projectFromHistory as a function of its arguments.                      *)
(***************************************************************************)
ProjMaxLen == 9
ProjPrices == {0, 200000}
ProjLastPrices == ProjPrices \cup {995, 199990, 200020}
ProjTargets == {None, Some(0), Some(10000), Some(200010), Some(250000)}

ProjHistories ==
  UNION { { [k \in 1..n |-> [date |-> k - n,
                             price |-> IF k = n THEN l ELSE f[k]]] :
              f \in [1..n -> ProjPrices], l \in ProjLastPrices } :
          n \in 1..ProjMaxLen }

ProjInit ==
  /\ SelectionInit
  /\ projIn \in { Some([history |-> h, target |-> t]) : h \in ProjHistories, t \in ProjTargets }
  /\ projOut = <<>>
  /\ ParseIdle
  /\ useMockData = TRUE
  /\ SearchIdle
  /\ StandaloneIdle

Project ==
  /\ projIn # None
  /\ projOut = <<>>
  /\ \E j \in ProjJitterDraws :
       projOut' = projectFromHistory(Val(projIn).history, Val(projIn).target,
                                     [i \in 1..3 |-> j])
  /\ UNCHANGED <<selectionVars, pending, dashboardVars, auxVars, projIn, parseVars,
                 searchVars, standaloneVars>>

ProjNext == Project

ProjSpec == ProjInit /\ [][ProjNext]_vars

(***************************************************************************)
(* parsePriceToNumber as a function of its argument.                       *)
(***************************************************************************)
ParseMaxLen == 4
\* A currency letter, the two separators and two digits.
ParseChars == {"R", ",", ".", "0", "5"}

ParseStrings == UNION { [1..n -> ParseChars] : n \in 0..ParseMaxLen }

\* The argument is a string or undefined (priceStr?: string).
ParseArgs ==
  { [defined |-> TRUE, str |-> str] : str \in ParseStrings }
    \cup { [defined |-> FALSE, str |-> <<>>] }

ParseInit ==
  /\ SelectionInit
  /\ projIn = None
  /\ projOut = <<>>
  /\ parseIn \in { Some(a) : a \in ParseArgs }
  /\ parseOut = <<>>
  /\ useMockData = TRUE
  /\ SearchIdle
  /\ StandaloneIdle

Parse ==
  /\ parseIn # None
  /\ parseOut = <<>>
  /\ parseOut' = Some(IF Val(parseIn).defined
                      THEN parsePriceToNumber(Val(parseIn).str)
                      ELSE None)
  /\ UNCHANGED <<selectionVars, pending, dashboardVars, auxVars, projVars, parseIn,
                 searchVars, standaloneVars>>

ParseNext == Parse

ParseSpec == ParseInit /\ [][ParseNext]_vars

(***************************************************************************)
(* Search: SerpApiService.searchProducts (with makeApiRequest and          *)
(* generateMockProducts) and EnhancedSearchBar.handleSearch.               *)
(* A character beyond Latin-1 is written by its code point ("U+092B").     *)
(***************************************************************************)
\* Searches started in one run of the model.
MaxSearches == 2

QueryTV == <<"t", "v">>
\* a query in Devanagari script
QueryHindi == <<"U+092B", "U+094B", "U+0928">>
QueryBlank == <<" ">>
Queries == {QueryTV, QueryHindi, QueryBlank}

\* btoa throws InvalidCharacterError on a character outside Latin-1.
BeyondLatin1 == {"U+092B", "U+094B", "U+0928"}
btoaThrows(str) == \E i \in 1..Len(str) : str[i] \in BeyondLatin1

\* The five mock products: title suffix, price, source.
MockCatalogue ==
  << [suffix |-> <<" ", "-", " ", "P", "r", "e", "m", "i", "u", "m", " ", "M", "o", "d", "e", "l">>,
      price |-> <<"R", "8", "9", ",", "9", "9", "9">>, source |-> "Amazon"],
     [suffix |-> <<" ", "-", " ", "S", "t", "a", "n", "d", "a", "r", "d", " ", "E", "d", "i", "t", "i", "o", "n">>,
      price |-> <<"R", "7", "9", ",", "9", "9", "9">>, source |-> "Flipkart"],
     [suffix |-> <<" ", "-", " ", "P", "r", "o", " ", "V", "e", "r", "s", "i", "o", "n">>,
      price |-> <<"R", "1", "0", "9", ",", "9", "9", "9">>, source |-> "Croma"],
     [suffix |-> <<" ", "-", " ", "L", "i", "m", "i", "t", "e", "d", " ", "E", "d", "i", "t", "i", "o", "n">>,
      price |-> <<"R", "1", "2", "9", ",", "9", "9", "9">>, source |-> "Reliance Digital"],
     [suffix |-> <<" ", "-", " ", "B", "u", "d", "g", "e", "t", " ", "F", "r", "i", "e", "n", "d", "l", "y">>,
      price |-> <<"R", "6", "9", ",", "9", "9", "9">>, source |-> "Vijay Sales"] >>

\* generateMockProducts(query), when the btoa of its placeholder succeeds.
generateMockProducts(q) ==
  [k \in 1..Len(MockCatalogue) |->
     [title |-> q \o MockCatalogue[k].suffix,
      price |-> MockCatalogue[k].price,
      source |-> MockCatalogue[k].source]]

\* The three demo products handleSearch substitutes when searchProducts
\* rejects.
DemoCatalogue ==
  << [suffix |-> <<" ", "-", " ", "S", "a", "m", "p", "l", "e", " ", "P", "r", "o", "d", "u", "c", "t">>,
      price |-> <<"R", "9", "9", "9">>, source |-> "Amazon"],
     [suffix |-> <<" ", "-", " ", "P", "r", "e", "m", "i", "u", "m", " ", "V", "e", "r", "s", "i", "o", "n">>,
      price |-> <<"R", "1", ",", "4", "9", "9">>, source |-> "Flipkart"],
     [suffix |-> <<" ", "-", " ", "B", "e", "s", "t", " ", "V", "a", "l", "u", "e">>,
      price |-> <<"R", "7", "9", "9">>, source |-> "Croma"] >>

DemoProducts(q) ==
  [k \in 1..Len(DemoCatalogue) |->
     [title |-> q \o DemoCatalogue[k].suffix,
      price |-> DemoCatalogue[k].price,
      source |-> DemoCatalogue[k].source]]

TitleUnknown == <<"U", "n", "k", "n", "o", "w", "n", " ", "P", "r", "o", "d", "u", "c", "t">>

\* Bodies the shopping API can answer with: an error field, no
\* shopping_results, or two results of which one lacks its price and the
\* other its title and source.
ApiResponses ==
  { [error |-> TRUE, shopping_results |-> None, status |-> None],
    [error |-> FALSE, shopping_results |-> None, status |-> None],
    [error |-> FALSE,
     shopping_results |->
       Some(<< [title |-> Some(TitleTV), price |-> None, source |-> Some("Croma")],
               [title |-> None, price |-> Some(PriceNovel), source |-> None] >>),
     status |-> Some("Success")] }

\* data.shopping_results?.map(item => ({...})) || []
TransformResults(data) ==
  IF data.shopping_results = None THEN <<>>
  ELSE LET items == Val(data.shopping_results)
       IN [k \in 1..Len(items) |->
             [title |-> IF items[k].title # None /\ Val(items[k].title) # <<>>
                        THEN Val(items[k].title) ELSE TitleUnknown,
              price |-> IF items[k].price # None /\ Val(items[k].price) # <<>>
                        THEN Val(items[k].price) ELSE PriceMissing,
              source |-> IF items[k].source # None THEN Val(items[k].source)
                         ELSE "Unknown"]]

\* How a searchProducts call settles.
Fulfilled(products, status) ==
  [rejected |-> FALSE, products |-> products, status |-> status]
Rejected == [rejected |-> TRUE, products |-> <<>>, status |-> "error"]


\* The outer catch of searchProducts: the mock list under the status
\* 'Fallback (Mock Data)' when an API key is configured, the error thrown
\* again otherwise; generateMockProducts throws when btoa does.
CatchOutcome(q, mock) ==
  IF mock \/ btoaThrows(q) THEN Rejected
  ELSE Fulfilled(generateMockProducts(q), "Fallback (Mock Data)")

\* searchProducts from the body of a response on.
DataOutcome(q, data, mock) ==
  IF data.error THEN CatchOutcome(q, mock)
  ELSE Fulfilled(TransformResults(data),
                 IF data.status # None THEN Val(data.status) ELSE "Unknown")

\* results.products.slice(0, 6).map(p => ({platform, price, productName, ...}))
Offers(products) ==
  [k \in 1..Min(6, Len(products)) |->
     [platform |-> products[k].source,
      price |-> parseNum(products[k].price),
      productName |-> products[k].title]]

\* query.trim() is not empty
NonBlank(q) == \E i \in 1..Len(q) : q[i] # " "

MutAbortedNever(s) == FALSE

\* abortSignal.aborted, for the signal a search took at its start
Aborted(s) == s.aborted

nonSearchVars == <<selectionVars, pending, dashboardVars, auxVars, projVars, parseVars,
                   standaloneVars>>

\* The Dashboard, which the search bar does not read, is taken in one of
\* its first renderings: the prediction drawn stable, the chart rising.
SearchInit ==
  /\ SelectionInit
  /\ predictionData.expectedChange = 0
  /\ Val(priceData[1].price) < Val(priceData[2].price)
  /\ projIn = None
  /\ projOut = <<>>
  /\ ParseIdle
  /\ useMockData \in BOOLEAN
  /\ SearchIdle
  /\ StandaloneIdle

\* handleSearch up to its first await that suspends.  A value written to
\* searchResults, smartAnalysis and window.__platformOffers is tagged with
\* the number of the search that wrote it.
HandleSearch(q) ==
  /\ NonBlank(q)
  /\ Len(searches) < MaxSearches
  /\ LET k == Len(searches) + 1
         superseded ==
           [j \in 1..Len(searches) |->
              IF j = Len(searches) THEN [searches[j] EXCEPT !.aborted = TRUE]
              ELSE searches[j]]
         fresh == [query |-> q, aborted |-> FALSE, stage |-> "primary",
                   requests |-> <<>>, failures |-> <<>>, data |-> None,
                   outcome |-> None, dropped |-> FALSE]
     IN /\ isSearching' = TRUE
        /\ isAnalyzing' = TRUE
        /\ searchHistory' = <<q>> \o SubSeq(searchHistory, 1, Min(4, Len(searchHistory)))
        /\ IF useMockData /\ btoaThrows(q)
           THEN \* searchProducts rejects before it suspends: the catch of
                \* handleSearch runs at once
                /\ searches' = Append(superseded,
                                      [fresh EXCEPT !.stage = "analysis",
                                                    !.outcome = Some(Rejected)])
                /\ searchResults' = [search |-> k, products |-> DemoProducts(q)]
           ELSE /\ searches' = Append(superseded,
                                      IF useMockData
                                      THEN [fresh EXCEPT !.stage = "delay"]
                                      ELSE [fresh EXCEPT !.requests = <<"primary">>])
                /\ UNCHANGED searchResults
  /\ UNCHANGED <<smartAnalysis, platformOffers, useMockData, nonSearchVars>>

\* handleSearch from the settling of searchProducts to the next await.
AfterSearchProducts(k, settled) ==
  LET outcome == Val(settled.outcome)
  IN IF Aborted(settled)
     THEN /\ searches' = [searches EXCEPT
                            ![k] = [settled EXCEPT !.stage = "done", !.dropped = TRUE]]
          /\ UNCHANGED <<searchResults, platformOffers>>
     ELSE /\ searches' = [searches EXCEPT ![k] = [settled EXCEPT !.stage = "analysis"]]
          /\ IF outcome.rejected
             THEN /\ searchResults' = [search |-> k, products |-> DemoProducts(settled.query)]
                  /\ UNCHANGED platformOffers
             ELSE /\ searchResults' = [search |-> k, products |-> outcome.products]
                  /\ platformOffers' =
                       Some([search |-> k, offers |-> Offers(outcome.products)])

\* The simulated delay of the mock mode elapses.
MockDelayElapses(k) ==
  /\ searches[k].stage = "delay"
  /\ AfterSearchProducts(k,
       [searches[k] EXCEPT
          !.outcome = Some(Fulfilled(generateMockProducts(searches[k].query),
                                     "Success (Mock Data)"))])
  /\ UNCHANGED <<smartAnalysis, isSearching, isAnalyzing, searchHistory,
                 useMockData, query, nonSearchVars>>

\* makeApiRequest returns the body of a response (primary or CORS proxy).
RequestResponds(k, data) ==
  /\ searches[k].stage \in {"primary", "cors"}
  /\ AfterSearchProducts(k,
       [searches[k] EXCEPT
          !.data = Some(data),
          !.outcome = Some(DataOutcome(searches[k].query, data, useMockData))])
  /\ UNCHANGED <<smartAnalysis, isSearching, isAnalyzing, searchHistory,
                 useMockData, query, nonSearchVars>>

\* makeApiRequest to the primary proxy throws (network error, HTTP status,
\* timeout): the CORS proxy is requested.
PrimaryFails(k) ==
  /\ searches[k].stage = "primary"
  /\ searches' = [searches EXCEPT
                    ![k] = [@ EXCEPT !.stage = "cors",
                                     !.requests = Append(@, "cors"),
                                     !.failures = Append(@, "primary")]]
  /\ UNCHANGED <<searchResults, smartAnalysis, platformOffers, isSearching,
                 isAnalyzing, searchHistory, useMockData, query, nonSearchVars>>

\* makeApiRequest to the CORS proxy throws as well.
CorsFails(k) ==
  /\ searches[k].stage = "cors"
  /\ AfterSearchProducts(k,
       [searches[k] EXCEPT
          !.failures = Append(@, "cors"),
          !.outcome = Some(CatchOutcome(searches[k].query, useMockData))])
  /\ UNCHANGED <<smartAnalysis, isSearching, isAnalyzing, searchHistory,
                 useMockData, query, nonSearchVars>>

\* handleSearch from the settling of enhanceSearchQuery to its end; kind
\* is "ai" for the analysis received, "mock" for the one substituted when
\* the call failed.
MutAfterAnalysisResetsAlways(k, kind) ==
  /\ searches[k].stage = "analysis"
  /\ IF Aborted(searches[k])
     THEN /\ searches' = [searches EXCEPT ![k] = [@ EXCEPT !.stage = "done",
                                                          !.dropped = TRUE]]
          /\ UNCHANGED smartAnalysis
     ELSE /\ searches' = [searches EXCEPT ![k] = [@ EXCEPT !.stage = "done"]]
          /\ smartAnalysis' = Some([search |-> k, kind |-> kind])
  /\ isSearching' = FALSE
  /\ isAnalyzing' = FALSE
  /\ UNCHANGED <<searchResults, platformOffers, searchHistory, useMockData,
                 query, nonSearchVars>>

AfterAnalysis(k, kind) ==
  /\ searches[k].stage = "analysis"
  /\ IF Aborted(searches[k])
     THEN /\ searches' = [searches EXCEPT ![k] = [@ EXCEPT !.stage = "done",
                                                          !.dropped = TRUE]]
          /\ UNCHANGED <<smartAnalysis, isSearching, isAnalyzing>>
     ELSE /\ searches' = [searches EXCEPT ![k] = [@ EXCEPT !.stage = "done"]]
          /\ smartAnalysis' = Some([search |-> k, kind |-> kind])
          /\ isSearching' = FALSE
          /\ isAnalyzing' = FALSE
  /\ UNCHANGED <<searchResults, platformOffers, searchHistory, useMockData,
                 query, nonSearchVars>>

AnalysisResolves(k) == AfterAnalysis(k, "ai")
AnalysisFails(k) == AfterAnalysis(k, "mock")

\* handleSearch called with q in the input.
Search == \E q \in Queries : query' = q /\ HandleSearch(q)
DelayElapses == \E k \in 1..Len(searches) : MockDelayElapses(k)
Responds == \E k \in 1..Len(searches) : \E data \in ApiResponses : RequestResponds(k, data)
PrimaryFailure == \E k \in 1..Len(searches) : PrimaryFails(k)
CorsFailure == \E k \in 1..Len(searches) : CorsFails(k)
AnalysisDone == \E k \in 1..Len(searches) : AnalysisResolves(k)
AnalysisFailure == \E k \in 1..Len(searches) : AnalysisFails(k)

SearchNext ==
  \/ Search \/ DelayElapses \/ Responds \/ PrimaryFailure \/ CorsFailure
  \/ AnalysisDone \/ AnalysisFailure

SearchSpec == SearchInit /\ [][SearchNext]_vars

(***************************************************************************)
(* EnhancedSearchBar with its input: handleInputChange, handleClear, the   *)
(* effect on [query] and handleSearch on the query typed so far.  No       *)
(* product is selected here, so the effect that copies selectedProduct     *)
(* into an empty query does nothing.                                       *)
(***************************************************************************)
InputValues == {<<>>, QueryBlank, QueryTV}

NoResults == [search |-> 0, products |-> <<>>]

\* useEffect(..., [query]) after a change of query to value
QueryEffect(value) ==
  IF NonBlank(value)
  THEN UNCHANGED <<searchResults, smartAnalysis>>
  ELSE searchResults' = NoResults /\ smartAnalysis' = None

HandleInputChange(value) ==
  /\ value # query
  /\ query' = value
  /\ IF value # selectedProduct
     THEN ClearSelection
     ELSE UNCHANGED <<selectionVars, pending, dashboardVars, auxVars>>
  /\ QueryEffect(value)
  /\ UNCHANGED <<useMockData, searches, platformOffers, isSearching, isAnalyzing,
                 searchHistory, projVars, parseVars, standaloneVars>>

\* The clear button is rendered while query is not empty.
HandleClear ==
  /\ query # <<>>
  /\ query' = <<>>
  /\ ClearSelection
  /\ searchResults' = NoResults
  /\ smartAnalysis' = None
  /\ UNCHANGED <<useMockData, searches, platformOffers, isSearching, isAnalyzing,
                 searchHistory, projVars, parseVars, standaloneVars>>

InputChange == \E value \in InputValues : HandleInputChange(value)
\* handleSearch on the query in the input (a blank query only shows a toast)
SubmitSearch == query' = query /\ HandleSearch(query)

QueryNext ==
  \/ InputChange \/ HandleClear \/ SubmitSearch
  \/ DelayElapses \/ Responds \/ PrimaryFailure \/ CorsFailure
  \/ AnalysisDone \/ AnalysisFailure

QuerySpec == SearchInit /\ [][QueryNext]_vars

(***************************************************************************)
(* The generators as functions of their arguments and random draws.        *)
(***************************************************************************)
UpperLetters == {"A", "B", "C", "D", "E", "F", "G", "H", "I", "J", "K", "L", "M", "N", "O", "P", "Q", "R", "S", "T", "U", "V", "W", "X", "Y", "Z"}

UpperOf(c) ==
  IF \E u \in UpperLetters : LowerOf(u) = c
  THEN CHOOSE u \in UpperLetters : LowerOf(u) = c
  ELSE c

toUpperCase(s) == [i \in 1..Len(s) |-> UpperOf(s[i])]

Keywords ==
  UNION { { CategoryTable[r].keywords[k] : k \in 1..Len(CategoryTable[r].keywords) } :
          r \in 1..Len(CategoryTable) }

\* Names to classify: every keyword and every two keywords joined by a
\* space, in lower and in upper case, and names that match no row.
KeywordPairs == { a \o <<" ">> \o b : a \in Keywords, b \in Keywords }

ClassifyNames ==
  Keywords \cup KeywordPairs
    \cup { toUpperCase(n) : n \in Keywords \cup KeywordPairs }
    \cup { <<>>, <<"C", "h", "a", "i", "r">> }
    \cup KnownNames

ClassifyCalls == { [fn |-> "classify", name |-> n] : n \in ClassifyNames }

\* generatePriceData(productName) with its 8 + 4 draws: the historical
\* months all take the same draw, the prediction months each their own.
HistoricalDraws == { [k \in 1..8 |-> v] : v \in {-15, 0, 14} }
PredictionJitters == [1..4 -> {-5, 0, 4}]
GenerateCalls ==
  { [fn |-> "generate", name |-> n, hv |-> hv, pj |-> pj] :
      n \in KnownNames, hv \in HistoricalDraws, pj \in PredictionJitters }

\* getPriceHistory(productName, days) with its draws.
HistoryCalls ==
  { [fn |-> "history", days |-> d, baseDraw |-> b, jitter |-> j] :
      d \in 1..TrackingDays, b \in BaseDraws, j \in JitterPatterns(TrackingDays + 1) }

\* The predictionData memo on a history of more than 3 points: whole
\* prices, the last one from a larger set.
DeriveMaxLen == 7
DerivePrices == {0, 1000}
DeriveLastPrices == {0, 10, 800, 970, 1000, 1030, 1200, 200000}
DeriveCalls ==
  UNION { { [fn |-> "derive",
             history |-> [k \in 1..n |-> [date |-> k - n,
                                          price |-> IF k = n THEN l ELSE f[k]]]] :
              f \in [1..n -> DerivePrices], l \in DeriveLastPrices } :
          n \in 4..DeriveMaxLen }

FnInit ==
  /\ SelectionInit
  /\ projIn = None
  /\ projOut = <<>>
  /\ ParseIdle
  /\ useMockData = TRUE
  /\ SearchIdle
  /\ chat = ChatInitial
  /\ gemini = GeminiInitial
  /\ fnIn \in { Some(c) : c \in ClassifyCalls \cup GenerateCalls \cup HistoryCalls
                               \cup DeriveCalls }
  /\ fnOut = <<>>

fnOthers == <<selectionVars, pending, dashboardVars, auxVars, projVars, parseVars,
              searchVars, chat, gemini, fnIn>>

\* The category chain of the chart generator and of the platform-price
\* generator, applied to one name.
Classify ==
  /\ fnIn # None /\ fnOut = <<>>
  /\ Val(fnIn).fn = "classify"
  /\ fnOut' = Some([chart |-> ClassifyFrom(Val(fnIn).name, 1),
                    platform |-> ClassifyPlatformFrom(Val(fnIn).name, 1)])
  /\ UNCHANGED fnOthers

Generate ==
  /\ fnIn # None /\ fnOut = <<>>
  /\ Val(fnIn).fn = "generate"
  /\ fnOut' = Some(generatePriceData(Val(fnIn).name, Val(fnIn).hv, Val(fnIn).pj))
  /\ UNCHANGED fnOthers

History ==
  /\ fnIn # None /\ fnOut = <<>>
  /\ Val(fnIn).fn = "history"
  /\ fnOut' = Some(getPriceHistory(Val(fnIn).days, Val(fnIn).baseDraw, Val(fnIn).jitter))
  /\ UNCHANGED fnOthers

Derive ==
  /\ fnIn # None /\ fnOut = <<>>
  /\ Val(fnIn).fn = "derive"
  /\ fnOut' = Some(DerivedPrediction(Val(fnIn).history))
  /\ UNCHANGED fnOthers

FnNext == Classify \/ Generate \/ History \/ Derive

FnSpec == FnInit /\ [][FnNext]_vars

(***************************************************************************)
(* AiChatAssistant: one mounted instance.  chat.awaiting counts the        *)
(* makeApiRequest calls of handleSendMessage that have not settled;        *)
(* chat.lastSend records how the last handleSendMessage call ended.        *)
(***************************************************************************)
\* Messages in one run of the model.
MaxMessages == 5

ChatInputs == {<<>>, QueryBlank, <<"h", "i">>}

WelcomeMessage == [id |-> "welcome", sender |-> "assistant", content |-> <<>>]
UserMessage(content) == [id |-> "now", sender |-> "user", content |-> content]
AssistantMessage == [id |-> "now+1", sender |-> "assistant", content |-> <<"r", "e", "p", "l", "y">>]
ErrorMessage == [id |-> "now+1", sender |-> "assistant", content |-> <<"e", "r", "r", "o", "r">>]

ChatInit ==
  /\ SelectionInit
  /\ projIn = None
  /\ projOut = <<>>
  /\ ParseIdle
  /\ useMockData = TRUE
  /\ SearchIdle
  /\ StandaloneIdle

chatOthers == <<selectionVars, pending, dashboardVars, auxVars, projVars, parseVars,
                searchVars, fnVars, gemini>>

\* The parent sets isOpen; the effect on [isOpen, productContext] adds the
\* welcome message when the list is empty.
OpenChat ==
  /\ ~chat.isOpen
  /\ chat' = [chat EXCEPT !.isOpen = TRUE,
                          !.messages = IF Len(@) = 0 THEN <<WelcomeMessage>> ELSE @]
  /\ UNCHANGED chatOthers

CloseChat ==
  /\ chat.isOpen
  /\ chat' = [chat EXCEPT !.isOpen = FALSE]
  /\ UNCHANGED chatOthers

\* The input and the suggestion buttons, disabled while isLoading.
SetInputMessage(value) ==
  /\ chat.isOpen /\ ~chat.isLoading
  /\ value # chat.inputMessage
  /\ chat' = [chat EXCEPT !.inputMessage = value]
  /\ UNCHANGED chatOthers

MutHandleSendMessageAnyInput ==
  /\ chat.isOpen
  /\ IF chat.isLoading
     THEN chat' = [chat EXCEPT !.lastSend = "ignored"]
     ELSE /\ Len(chat.messages) < MaxMessages
          /\ chat' = [chat EXCEPT !.messages = Append(@, UserMessage(chat.inputMessage)),
                                  !.inputMessage = <<>>,
                                  !.isLoading = TRUE,
                                  !.isTyping = TRUE,
                                  !.awaiting = @ + 1,
                                  !.lastSend = "accepted"]
  /\ UNCHANGED chatOthers

\* handleSendMessage up to the await of makeApiRequest.
HandleSendMessage ==
  /\ chat.isOpen
  /\ IF ~NonBlank(chat.inputMessage) \/ chat.isLoading
     THEN chat' = [chat EXCEPT !.lastSend = "ignored"]
     ELSE /\ Len(chat.messages) < MaxMessages
          /\ chat' = [chat EXCEPT !.messages = Append(@, UserMessage(chat.inputMessage)),
                                  !.inputMessage = <<>>,
                                  !.isLoading = TRUE,
                                  !.isTyping = TRUE,
                                  !.awaiting = @ + 1,
                                  !.lastSend = "accepted"]
  /\ UNCHANGED chatOthers

\* makeApiRequest resolves: the reply is appended, then the finally block.
ReplyArrives ==
  /\ chat.awaiting > 0
  /\ chat' = [chat EXCEPT !.messages = Append(@, AssistantMessage),
                          !.isLoading = FALSE,
                          !.isTyping = FALSE,
                          !.awaiting = @ - 1]
  /\ UNCHANGED chatOthers

\* makeApiRequest rejects: the catch appends the error message, then the
\* finally block.
ReplyFails ==
  /\ chat.awaiting > 0
  /\ chat' = [chat EXCEPT !.messages = Append(@, ErrorMessage),
                          !.isLoading = FALSE,
                          !.isTyping = FALSE,
                          !.awaiting = @ - 1]
  /\ UNCHANGED chatOthers

TypeMessage == \E value \in ChatInputs : SetInputMessage(value)

ChatNext ==
  \/ OpenChat \/ CloseChat \/ TypeMessage \/ HandleSendMessage
  \/ ReplyArrives \/ ReplyFails

ChatSpec == ChatInit /\ [][ChatNext]_vars

(***************************************************************************)
(* GeminiAiService: the singleton after its construction.  gemini.calls    *)
(* are the makeApiRequest calls in the order they started; a call records  *)
(* whether it is the constructor's connection test, the value of           *)
(* useMockData when it started, the fetches it issued and its 30 s timer.  *)
(***************************************************************************)
\* makeApiRequest calls in one run of the model, the connection test included.
MaxCalls == 3

Endpoints == 3

\* makeApiRequest up to its first await, or to its return when nothing is
\* awaited (mock mode, or offline: the timer is set and cleared).
NewCall(mock, test, online) ==
  IF mock
  THEN [test |-> test, mock |-> TRUE, stage |-> "done", endpoint |-> 0,
        fetches |-> 0, timer |-> "none", result |-> "canned"]
  ELSE IF ~online
       THEN [test |-> test, mock |-> FALSE, stage |-> "done", endpoint |-> 0,
             fetches |-> 0, timer |-> "cleared", result |-> "error"]
       ELSE [test |-> test, mock |-> FALSE, stage |-> "fetch", endpoint |-> 1,
             fetches |-> 1, timer |-> "armed", result |-> "none"]

\* The then-callback of the constructor: a failed connection test turns
\* the mock mode on.
AfterTest(useMock, call) ==
  useMock \/ (call.test /\ call.result = "error")

\* The constructor: validateApiKey, then the connection test in the
\* background when the key is valid.
Constructed(keyValid, online) ==
  IF ~keyValid THEN GeminiInitial
  ELSE LET call == NewCall(FALSE, TRUE, online)
       IN [useMockData |-> AfterTest(FALSE, call), calls |-> <<call>>]

GeminiInit ==
  /\ SelectionInit
  /\ projIn = None
  /\ projOut = <<>>
  /\ ParseIdle
  /\ useMockData = TRUE
  /\ SearchIdle
  /\ fnIn = None /\ fnOut = <<>>
  /\ chat = ChatInitial
  /\ gemini \in { Constructed(keyValid, online) : keyValid \in BOOLEAN, online \in BOOLEAN }

geminiOthers == <<selectionVars, pending, dashboardVars, auxVars, projVars, parseVars,
                  searchVars, fnVars, chat>>

MutMakeApiRequestNoMock(online) ==
  /\ Len(gemini.calls) < MaxCalls
  /\ gemini' = [gemini EXCEPT !.calls = Append(@, NewCall(FALSE, FALSE, online))]
  /\ UNCHANGED geminiOthers

MakeApiRequest(online) ==
  /\ Len(gemini.calls) < MaxCalls
  /\ gemini' = [gemini EXCEPT !.calls = Append(@, NewCall(gemini.useMockData, FALSE, online))]
  /\ UNCHANGED geminiOthers

\* Call k ends with c; when it is the connection test, the constructor's
\* callback follows.
Settle(k, c) ==
  /\ gemini' = [useMockData |-> AfterTest(gemini.useMockData, c),
                calls |-> [gemini.calls EXCEPT ![k] = c]]
  /\ UNCHANGED geminiOthers

\* fetch resolves with response.ok: the loop ends, the timer is cleared
\* and response.json() is awaited.
FetchOk(k) ==
  /\ gemini.calls[k].stage = "fetch"
  /\ Settle(k, [gemini.calls[k] EXCEPT !.stage = "json", !.timer = "cleared"])

\* fetch resolves with a status that is not ok, or rejects with an error
\* other than the abort: the next endpoint is tried; after the last one
\* the call throws.
FetchFails(k) ==
  /\ gemini.calls[k].stage = "fetch"
  /\ Settle(k, IF gemini.calls[k].endpoint < Endpoints
               THEN [gemini.calls[k] EXCEPT !.endpoint = @ + 1, !.fetches = @ + 1]
               ELSE [gemini.calls[k] EXCEPT !.stage = "done", !.timer = "cleared",
                                            !.result = "error"])

\* The 30 s timer fires: the pending fetch rejects with AbortError and the
\* call throws 'Request timed out'.
TimerFires(k) ==
  /\ gemini.calls[k].stage = "fetch"
  /\ gemini.calls[k].timer = "armed"
  /\ Settle(k, [gemini.calls[k] EXCEPT !.stage = "done", !.timer = "fired",
                                       !.result = "error"])

\* response.json() settles; the body has the expected structure or not.
JsonParsed(k, valid) ==
  /\ gemini.calls[k].stage = "json"
  /\ Settle(k, [gemini.calls[k] EXCEPT !.stage = "done",
                                       !.result = IF valid THEN "text" ELSE "error"])

Request == \E online \in BOOLEAN : MakeApiRequest(online)
FetchSucceeds == \E k \in 1..Len(gemini.calls) : FetchOk(k)
FetchFailure == \E k \in 1..Len(gemini.calls) : FetchFails(k)
Timeout == \E k \in 1..Len(gemini.calls) : TimerFires(k)
BodyParsed == \E k \in 1..Len(gemini.calls) : \E valid \in BOOLEAN : JsonParsed(k, valid)

GeminiNext == Request \/ FetchSucceeds \/ FetchFailure \/ Timeout \/ BodyParsed

GeminiSpec == GeminiInit /\ [][GeminiNext]_vars

(***************************************************************************)
(* Properties.                                                             *)
(***************************************************************************)
Prices(series) == [k \in 1..Len(series) |-> series[k].price]
Dates(series) == [k \in 1..Len(series) |-> series[k].date]

JustResolved == lastOp.op = "resolve"
JustRejected == lastOp.op = "reject"

\* C1: with run-to-completion actions, in every state in which no action is
\* under way, if currentPrice is set and priceHistory is non-empty then the
\* last history point's price equals currentPrice exactly.
C1_LastPointIsCurrentPrice ==
  (Idle /\ currentPrice # None /\ priceHistory # <<>>)
    => Last(priceHistory).price = Val(currentPrice)

\* C2: right after a fetched series (length >= 1) was stored for a product
\* with a parsed price >= 0, the last stored price is the parsed price
\* exactly and every other stored price is >= 0.
C2_ReconcilerPostcondition ==
  (JustResolved /\ lastOp.parsed # None /\ Len(lastOp.fetched) >= 1)
    => /\ Len(priceHistory) >= 1
       /\ Last(priceHistory).price = Val(lastOp.parsed)
       /\ \A k \in 1..(Len(priceHistory) - 1) : priceHistory[k].price >= 0

\* A fetched series was reconciled to a parsed price and the shift drove at
\* least one earlier point below zero.
C2_Witness ==
  /\ JustResolved /\ lastOp.parsed # None
  /\ Val(lastOp.parsed) >= 0
  /\ \E k \in 1..(Len(priceHistory) - 1) :
       /\ priceHistory[k].price = 0
       /\ lastOp.fetched[k].price + Val(lastOp.parsed) - Last(lastOp.fetched).price < 0

AllReset ==
  /\ selectedProduct = <<>>
  /\ selectedProductDetails = None
  /\ currentPrice = None
  /\ priceHistory = <<>>
  /\ lastUpdated = None

\* C3: from clearSelectedProduct until the next selection action, the five
\* selection fields stay reset, also when a suspended startTracking settles.
C3_ClearedStaysReset == cleared => AllReset

\* C4: when startTracking(B) began while an earlier call was suspended and
\* all calls have settled, selectedProductDetails is B, priceHistory is the
\* series stored by B's call and currentPrice is B's parsed price (stated
\* for a B whose price parses).
C4_LastSelectionWins ==
  (Idle /\ overlapped /\ selectedProductDetails # None)
    => LET B == Val(selectedProductDetails)
       IN /\ historyOf = Some(B)
          /\ parsePriceToNumber(B.price) # None
               => currentPrice = parsePriceToNumber(B.price)

\* C5 as claimed: in every Dashboard state the last prediction point of the
\* chart series equals the prediction card's targetPrice.
C5_ChartMatchesCardAlways ==
  /\ Predictions(priceData) # <<>>
  /\ Last(Predictions(priceData)) = predictionData.targetPrice

\* C5 amended: whenever priceHistory is non-empty, the last prediction point
\* of the chart series equals the prediction card's targetPrice.
C5_ChartMatchesCardWithHistory ==
  priceHistory # <<>>
    => /\ Predictions(priceData) # <<>>
       /\ Last(Predictions(priceData)) = predictionData.targetPrice

\* A chart projected from a stored history towards a target that differs
\* from the last historical price.
C5_Witness ==
  /\ priceHistory # <<>>
  /\ predictionData.targetPrice # Last(priceHistory).price
  /\ Len(Predictions(priceData)) = 3

C7_PricesNonNegativeIntegers ==
  \A k \in 1..Len(priceHistory) :
    priceHistory[k].price >= 0 /\ IsInteger(priceHistory[k].price)

\* The offset of a reconciliation, and the points the shift leaves >= 0.
OffsetOf(mapped, parsed) == Val(parsed) - Last(mapped).price
Unclamped(mapped, parsed, k) == mapped[k].price + OffsetOf(mapped, parsed) >= 0

\* The spec's example: prices [1000, 1050] reconciled to 1100.
ExampleSeries == << [date |-> -7, price |-> 10000], [date |-> 0, price |-> 10500] >>
ExampleHolds == Prices(Reconcile(ExampleSeries, Some(11000))) = <<10500, 11000>>

\* C8 as claimed: the stored series has the length and dates of the fetched
\* one, and every point not clamped at 0 has price = input + offset.
C8_ShiftIsExact ==
  /\ ExampleHolds
  /\ (JustResolved /\ lastOp.parsed # None)
       => LET mapped == MapFetched(lastOp.fetched)
          IN /\ Len(priceHistory) = Len(mapped)
             /\ Dates(priceHistory) = Dates(mapped)
             /\ \A k \in 1..Len(mapped) :
                  Unclamped(mapped, lastOp.parsed, k)
                    => priceHistory[k].price
                         = mapped[k].price + OffsetOf(mapped, lastOp.parsed)

\* C8 amended: same length and dates; the last point is the current price
\* and every earlier point not clamped at 0 is input + offset rounded to
\* the nearest integer (halves up).
C8_ShiftIsRounded ==
  /\ ExampleHolds
  /\ (JustResolved /\ lastOp.parsed # None)
       => LET mapped == MapFetched(lastOp.fetched)
              off == OffsetOf(mapped, lastOp.parsed)
          IN /\ Len(priceHistory) = Len(mapped)
             /\ Dates(priceHistory) = Dates(mapped)
             /\ Last(priceHistory).price = Val(lastOp.parsed)
             /\ \A k \in 1..(Len(mapped) - 1) :
                  Unclamped(mapped, lastOp.parsed, k)
                    => /\ IsInteger(priceHistory[k].price)
                       /\ 2 * priceHistory[k].price - 10 <= 2 * (mapped[k].price + off)
                       /\ 2 * (mapped[k].price + off) < 2 * priceHistory[k].price + 10

\* A reconciliation to a price with a decimal part in which an earlier
\* point was shifted without being clamped.
C8_Witness ==
  /\ JustResolved /\ lastOp.parsed # None
  /\ ~IsInteger(Val(lastOp.parsed))
  /\ \E k \in 1..(Len(priceHistory) - 1) :
       /\ Unclamped(MapFetched(lastOp.fetched), lastOp.parsed, k)
       /\ priceHistory[k].price # lastOp.fetched[k].price

\* C9: reconciling the stored (already reconciled) series again with the
\* same current price changes nothing, and the offset of that pass is 0.
C9_ReconcileIdempotent ==
  (JustResolved /\ lastOp.parsed # None)
    => /\ OffsetOf(priceHistory, lastOp.parsed) = 0
       /\ Reconcile(priceHistory, lastOp.parsed) = priceHistory

\* A stored series whose first pass moved the points and clamped one to 0.
C9_Witness ==
  /\ JustResolved /\ lastOp.parsed # None
  /\ OffsetOf(MapFetched(lastOp.fetched), lastOp.parsed) # 0
  /\ \E k \in 1..(Len(priceHistory) - 1) :
       /\ priceHistory[k].price = 0
       /\ ~Unclamped(MapFetched(lastOp.fetched), lastOp.parsed, k)

\* C10: when the price string cannot be parsed, the stored series has the
\* dates of the fetched series and its prices clamped at 0 and rounded,
\* nothing else.
C10_UnparsedKeepsFetched ==
  (JustResolved /\ lastOp.parsed = None)
    => /\ Len(priceHistory) = Len(lastOp.fetched)
       /\ \A k \in 1..Len(priceHistory) :
            /\ priceHistory[k].date = lastOp.fetched[k].date
            /\ priceHistory[k].price = Max(0, MathRound(lastOp.fetched[k].price))

\* A series stored for a product without a parseable price while a current
\* price of an earlier selection is still set.
C10_Witness ==
  /\ JustResolved /\ lastOp.parsed = None
  /\ priceHistory # <<>>
  /\ currentPrice # None
  /\ Last(priceHistory).price # Val(currentPrice)

\* C11: right after the history fetch of a call failed, priceHistory has
\* exactly 6 points, each dated 7 days after the one before, the last dated
\* today, all priced at the call's parsed price, or 0 when it has none.
C11_FallbackSeries ==
  JustRejected
    => /\ Len(priceHistory) = 6
       /\ \A k \in 1..5 : priceHistory[k + 1].date = priceHistory[k].date + 7
       /\ priceHistory[6].date = 0
       /\ \A k \in 1..6 :
            priceHistory[k].price
              = IF lastOp.parsed # None THEN Val(lastOp.parsed) ELSE 0

\* The fallback of a product without a parseable price, stored while the
\* current price of an earlier selection is still set.
C11_Witness ==
  /\ JustRejected /\ lastOp.parsed = None
  /\ currentPrice # None /\ Val(currentPrice) # 0
  /\ Len(priceHistory) = 6 /\ priceHistory[1].price = 0

\* C12: a startTracking call settles whether its fetch resolved with
\* points, resolved with an empty list or threw; right after it settled
\* lastUpdated is set, and the series PriceChart renders is never empty.
C12_SettlesWithChart ==
  /\ priceData # <<>>
  /\ (JustResolved \/ JustRejected)
       => lastUpdated # None

\* A fetch that resolved with an empty list for the selected product: the
\* stored history is empty and the chart shows the 12 generated points.
C12_Witness ==
  /\ JustResolved /\ lastOp.fetched = <<>>
  /\ selectedProductDetails = lastOp.product
  /\ priceHistory = <<>> /\ lastUpdated # None
  /\ Len(priceData) = 12

\* C13: for a non-empty history the result of projectFromHistory is the
\* last (at most 8) history points labelled with consecutive months from
\* "Jan", then at most 3 prediction points labelled with the months that
\* follow; no label occurs twice, none lies past "Dec".
C13_ProjectionLabels ==
  projOut # <<>>
    => LET recent == SliceLast(Val(projIn).history, 8)
           h == Len(recent)
           n == Len(projOut)
       IN /\ h <= 8 /\ h <= n /\ n <= h + 3 /\ n <= 12
          /\ \A k \in 1..n : projOut[k].date = months[k]
          /\ \A k \in 1..h :
               /\ projOut[k].price = Some(recent[k].price)
               /\ projOut[k].prediction = None
          /\ \A k \in (h + 1)..n :
               /\ projOut[k].price = None
               /\ projOut[k].prediction # None
          /\ \A i, j \in 1..n : i # j => projOut[i].date # projOut[j].date

\* A projection of a history longer than the slice: 8 historical labels
\* Jan..Aug and the predictions Sep, Oct, Nov.
C13_Witness ==
  /\ projOut # <<>>
  /\ Len(Val(projIn).history) > 8
  /\ Len(projOut) = 11
  /\ projOut[8].price # None /\ projOut[9].prediction # None
  /\ projOut[11].date = "Nov"

\* The case of C14: a target >= 0 that differs from the last historical
\* price, both whole numbers, and three prediction points.
ProjTowardsTarget ==
  /\ projOut # <<>>
  /\ Val(projIn).target # None
  /\ Val(Val(projIn).target) >= 0
  /\ IsInteger(Val(Val(projIn).target))
  /\ IsInteger(Last(Val(projIn).history).price)
  /\ Val(Val(projIn).target) # Last(Val(projIn).history).price
  /\ Len(Predictions(projOut)) = 3

\* C14 as claimed: the first and the second prediction differ from the
\* target and the third equals it.
C14_TargetOnlyAtFinalStep ==
  ProjTowardsTarget
    => LET t == Val(Val(projIn).target)
           p == Predictions(projOut)
       IN p[1] # t /\ p[2] # t /\ p[3] = t

\* C14 amended: the first prediction differs from the target and the third
\* equals it; the second equals the target exactly when the target is 1 or
\* 2 above the last historical price, and differs from it otherwise.
C14_TargetAtFinalStepUnlessClose ==
  ProjTowardsTarget
    => LET t == Val(Val(projIn).target)
           gap == t - Last(Val(projIn).history).price
           p == Predictions(projOut)
       IN /\ p[1] # t
          /\ p[3] = t
          /\ (p[2] = t) <=> (gap = 10 \/ gap = 20)

\* A projection towards a target 1 above the last price: the second
\* prediction is already the target.
C14_Witness ==
  /\ ProjTowardsTarget
  /\ Val(Val(projIn).target) - Last(Val(projIn).history).price = 10
  /\ Predictions(projOut)[1] = Last(Val(projIn).history).price
  /\ Predictions(projOut)[2] = Val(Val(projIn).target)

HasDigit(str) == \E i \in 1..Len(str) : str[i] \in Digits

\* C15: parsePriceToNumber returns a non-negative number for every string
\* that contains at least one digit, and null for every string without a
\* digit and for undefined or empty input.
C15_ParserTotalOnDigits ==
  parseOut # <<>>
    => LET arg == Val(parseIn)
           result == Val(parseOut)
       IN IF arg.defined /\ HasDigit(arg.str)
          THEN result # None /\ Val(result) >= 0
          ELSE result = None

\* C16: for the selected product, once its call has stored a history, if
\* its price string has no parseable number then currentPrice is unset, no
\* stored history point has price 0, and the platform offer computed from
\* that price string does not carry price 0.
C16_UnknownNeverZero ==
  (/\ selectedProductDetails # None
   /\ historyOf = selectedProductDetails
   /\ parsePriceToNumber(Val(selectedProductDetails).price) = None)
    => /\ currentPrice = None
       /\ \A k \in 1..Len(priceHistory) : priceHistory[k].price # 0
       /\ parseNum(Val(selectedProductDetails).price) # 0

\* C17: whenever selectedProductDetails is set, selectedProduct is the
\* title of that product.
C17_NameMatchesDetails ==
  selectedProductDetails # None
    => selectedProduct = Val(selectedProductDetails).title

\* C20: the series PriceChart generates for a product name (it does so
\* when there is no history) has exactly 12 points labelled Jan..Dec in
\* order, the first 8 with a price and no prediction, the last 4 with a
\* prediction and no price; for "iPhone 15" the series is seeded with
\* the base price 50000 (Jan is 50000 moved by the first variation).
C20_GeneratedSeries ==
  priceHistory = <<>>
    => /\ Len(priceData) = 12
       /\ \A k \in 1..12 : priceData[k].date = months[k]
       /\ \A k \in 1..8 :
            priceData[k].price # None /\ priceData[k].prediction = None
       /\ \A k \in 9..12 :
            priceData[k].price = None /\ priceData[k].prediction # None
       /\ CurrentProductOf(selectedProduct) = TitlePhone
            => /\ BasePriceOf(TitlePhone) = 50000
               /\ \E d \in ChartDraws :
                    priceData[1].price = Some(10 * RoundDiv(50000 * (100 + d.hv), 100))

\* The generated series of "iPhone 15" with the lowest variation draw:
\* Jan is 50000 less 15 percent.
C20_Witness ==
  /\ selectedProduct = TitlePhone
  /\ priceHistory = <<>>
  /\ Len(priceData) = 12
  /\ priceData[1].price = Some(425000)
  /\ priceData[12].date = "Dec" /\ priceData[12].prediction # None

AllSettled == \A k \in 1..Len(searches) : searches[k].stage = "done"

\* A step in which search k writes a value it tagged.
WritesBy(k) ==
  \/ searchResults' # searchResults /\ searchResults'.search = k
  \/ smartAnalysis' # smartAnalysis /\ smartAnalysis' = Some([search |-> k, kind |-> "ai"])
  \/ smartAnalysis' # smartAnalysis /\ smartAnalysis' = Some([search |-> k, kind |-> "mock"])
  \/ platformOffers' # platformOffers /\ platformOffers' # None
       /\ Val(platformOffers').search = k

\* C18: every search but the one started last has its signal aborted; a
\* search whose signal is aborted writes nothing to searchResults,
\* smartAnalysis or window.__platformOffers from then on; and once every
\* search has settled, searchResults and smartAnalysis are those of the
\* search started last.
C18_SearchSuperseding ==
  /\ [](\A k \in 1..(Len(searches) - 1) : searches[k].aborted)
  /\ [](AllSettled /\ searches # <<>>
          => /\ searchResults.search = Len(searches)
             /\ smartAnalysis # None
             /\ Val(smartAnalysis).search = Len(searches))
  /\ [][\A k \in 1..Len(searches) : searches[k].aborted => ~WritesBy(k)]_vars

\* Two searches have settled; the first had written its results and was
\* waiting for its analysis when the second started, and returned without
\* writing the analysis.
C18_Witness ==
  /\ Len(searches) = 2 /\ AllSettled
  /\ searches[1].dropped /\ searches[1].outcome # None
  /\ searchResults.search = 2
  /\ smartAnalysis # None /\ Val(smartAnalysis).search = 2

\* C19: with an API key configured, the primary proxy is requested first,
\* the CORS proxy only after the primary request failed, and searchProducts
\* never rejects: when both requests failed or the response carries an
\* error field, it returns the mock products of the query under the status
\* 'Fallback (Mock Data)'.
C19_SearchFallbackProtocol ==
  ~useMockData
    => \A k \in 1..Len(searches) :
         LET s == searches[k]
         IN /\ s.requests # <<>> /\ s.requests[1] = "primary"
            /\ Len(s.requests) > 1
                 => s.requests = <<"primary", "cors">> /\ s.failures[1] = "primary"
            /\ s.outcome # None
                 => /\ ~Val(s.outcome).rejected
                    /\ (Len(s.failures) = 2 \/ (s.data # None /\ Val(s.data).error))
                         => /\ Val(s.outcome).status = "Fallback (Mock Data)"
                            /\ Val(s.outcome).products = generateMockProducts(s.query)

\* The price of the first row, in table order, one of whose keywords occurs
\* in the lower-cased name; 1000 when no row has one.
FirstMatch(name) ==
  LET M == { r \in 1..Len(CategoryTable) : RowMatches(CategoryTable[r], name) }
  IN IF M = {} THEN 1000
     ELSE CategoryTable[CHOOSE r \in M : \A q \in M : r <= q].basePrice

Classified == fnOut # <<>> /\ Val(fnIn).fn = "classify"

\* C21: for every name, the chart generator and the platform-price
\* generator both give the base price of the first table row with a
\* keyword occurring case-insensitively in the name, and 1000 when no row
\* matches.
C21_FirstMatchWins ==
  Classified
    => /\ Val(fnOut).chart = FirstMatch(Val(fnIn).name)
       /\ Val(fnOut).platform = FirstMatch(Val(fnIn).name)

\* "TV SAMSUNG" matches the smartphone row and the television row and is
\* priced by the earlier one in both generators.
C21_Witness ==
  /\ Classified
  /\ Val(fnIn).name = <<"T", "V", " ", "S", "A", "M", "S", "U", "N", "G">>
  /\ Val(fnOut).chart = 50000 /\ Val(fnOut).platform = 50000

Generated == fnOut # <<>> /\ Val(fnIn).fn = "generate"

\* The k-th prediction (k in 1..4) of a generated series, and the value it
\* follows: the Aug price for the first, the prediction before it otherwise.
PredictionAt(series, k) == Val(series[8 + k].prediction)
PrecedingAt(series, k) ==
  IF k = 1 THEN Val(series[8].price) ELSE PredictionAt(series, k - 1)

\* C22: each of the 4 predictions of generatePriceData lies within the
\* value before it times (0.98 +- 0.05), the value before the first being
\* the Aug price; one unit is allowed for the rounding of the prediction.
C22_CompoundingDrift ==
  Generated
    => \A k \in 1..4 :
         LET cur == PredictionAt(Val(fnOut), k)
             prev == PrecedingAt(Val(fnOut), k)
         IN /\ 100 * cur >= 93 * prev - 1000
            /\ 100 * cur <= 103 * prev + 1000

Fetched == fnOut # <<>> /\ Val(fnIn).fn = "history"

\* C23: every price and every prediction of a series generated by
\* generatePriceData, and every price of a series returned by
\* getPriceHistory, is at least 0, whatever the name and the draws.
C23_GeneratedNonNegative ==
  /\ Generated
       => \A k \in 1..Len(Val(fnOut)) :
            LET p == Val(fnOut)[k]
            IN /\ p.price # None => Val(p.price) >= 0
               /\ p.prediction # None => Val(p.prediction) >= 0
  /\ Fetched
       => \A k \in 1..Len(Val(fnOut)) : Val(fnOut)[k].price >= 0

\* A fetched series with the lowest draws: every point at 20000 - 500.
C23_Witness ==
  /\ Fetched
  /\ Val(fnIn).baseDraw = 0
  /\ \A k \in 1..Len(Val(fnOut)) : Val(fnOut)[k].price = 10 * 19500

\* C24: getPriceHistory(name, days) returns days points, one per day, on
\* consecutive ascending dates, the last of them today.
C24_OnePointPerDay ==
  Fetched
    => LET h == Val(fnOut)
       IN /\ Len(h) = Val(fnIn).days
          /\ \A k \in 1..(Len(h) - 1) : h[k + 1].date = h[k].date + 1
          /\ h[Len(h)].date = 0

\* A projection towards a target >= 0 from a whole last price.
ProjWholeTowardsTarget ==
  /\ projOut # <<>>
  /\ Val(projIn).target # None /\ Val(Val(projIn).target) >= 0
  /\ IsInteger(Val(Val(projIn).target))
  /\ IsInteger(Last(Val(projIn).history).price)

\* C25: with a whole last price and a whole target >= 0, every prediction
\* lies between the value before it (the last historical price for the
\* first) and the target, both included.
C25_NoOvershoot ==
  ProjWholeTowardsTarget
    => LET t == Val(Val(projIn).target)
           p == Predictions(projOut)
           before(k) == IF k = 1 THEN Last(Val(projIn).history).price ELSE p[k - 1]
       IN \A k \in 1..Len(p) :
            /\ Min(before(k), t) <= p[k]
            /\ p[k] <= Max(before(k), t)

\* A projection from 0 towards 1000: the predictions 333, 667 and 1000
\* are each strictly closer to the target than the value before.
C25_Witness ==
  /\ ProjWholeTowardsTarget
  /\ Last(Val(projIn).history).price = 0
  /\ Predictions(projOut) = <<3330, 6670, 10000>>

\* C26: whenever the query is blank, searchResults is empty and
\* smartAnalysis is null, also after a search started before the query was
\* cleared has completed.
C26_BlankQueryClearedResults ==
  ~NonBlank(query) => searchResults.products = <<>> /\ smartAnalysis = None

\* C27: once the search started last has settled, isSearching and
\* isAnalyzing are both false; while it is in flight both are true, so no
\* superseded search that settles meanwhile has reset them.
C27_BusyUntilLastSettles ==
  searches # <<>>
    => LET last == searches[Len(searches)]
       IN /\ last.stage = "done" => ~isSearching /\ ~isAnalyzing
          /\ last.stage # "done" => isSearching /\ isAnalyzing

\* The first of two searches was superseded while it waited for its
\* analysis and has returned; the second is in flight and both flags are
\* still set.
C27_Witness ==
  /\ Len(searches) = 2
  /\ searches[1].stage = "done" /\ searches[1].dropped
  /\ searches[1].outcome # None
  /\ searches[2].stage # "done"
  /\ isSearching /\ isAnalyzing

IsUser(m) == m.sender = "user"
IsWelcome(m) == m.id = "welcome"

\* The step appends a message to the chat.
Appends(m) == chat'.messages = Append(chat.messages, m)

\* C28: a user message is accepted only from a non-blank input with no
\* reply pending; every accepted user message is followed by exactly one
\* assistant message, the reply or the error message, before the next
\* user message; isLoading and isTyping are true exactly while a reply is
\* pending; the welcome message is added only to the empty list, hence at
\* most once.
C28_ChatTurnTaking ==
  /\ [](LET m == chat.messages
        IN /\ chat.awaiting \in {0, 1}
           /\ chat.isLoading = (chat.awaiting = 1)
           /\ chat.isTyping = (chat.awaiting = 1)
           /\ \A i \in 1..Len(m) : IsWelcome(m[i]) => i = 1
           /\ \A i \in 1..(Len(m) - 1) : IsUser(m[i]) => ~IsUser(m[i + 1])
           /\ \A i \in 2..Len(m) : ~IsUser(m[i]) => IsUser(m[i - 1])
           /\ (m # <<>> /\ IsUser(m[Len(m)])) <=> chat.awaiting = 1)
  /\ [][/\ (\E c \in ChatInputs : Appends(UserMessage(c)))
            => /\ NonBlank(chat.inputMessage) /\ ~chat.isLoading
               /\ Appends(UserMessage(chat.inputMessage))
        /\ chat'.lastSend = "ignored" /\ chat.lastSend # "ignored"
            => /\ ~NonBlank(chat.inputMessage) \/ chat.isLoading
               /\ chat'.messages = chat.messages
        /\ (chat'.messages # chat.messages /\ chat'.messages # <<>>
              /\ IsWelcome(chat'.messages[1]) /\ chat.messages = <<>>)
            => chat'.messages = <<WelcomeMessage>>
        /\ (chat.messages # <<>>)
            => SubSeq(chat'.messages, 1, Len(chat.messages)) = chat.messages]_vars

\* After the welcome message, a first exchange that ended with the error
\* message and a second that ended with the reply; nothing is pending.
C28_Witness ==
  /\ Len(chat.messages) = 5
  /\ IsWelcome(chat.messages[1])
  /\ IsUser(chat.messages[2]) /\ chat.messages[3] = ErrorMessage
  /\ IsUser(chat.messages[4]) /\ chat.messages[5] = AssistantMessage
  /\ ~chat.isLoading /\ ~chat.isTyping

CannedCall(c) ==
  c.stage = "done" /\ c.result = "canned" /\ c.fetches = 0 /\ c.timer = "none"

\* C29: once useMockData is true it stays true, and a makeApiRequest
\* started from then on returns the canned response at once, without a
\* fetch and without a timer.
C29_MockModeAbsorbing ==
  /\ [][gemini.useMockData => gemini'.useMockData]_vars
  /\ [][(gemini.useMockData /\ Len(gemini'.calls) > Len(gemini.calls))
          => /\ Len(gemini'.calls) = Len(gemini.calls) + 1
             /\ CannedCall(gemini'.calls[Len(gemini'.calls)])]_vars
  /\ [](\A k \in 1..Len(gemini.calls) : gemini.calls[k].mock => CannedCall(gemini.calls[k]))

\* The connection test failed after a first request had started in real
\* mode; the request made afterwards got the canned response.
C29_Witness ==
  /\ gemini.useMockData
  /\ Len(gemini.calls) = 3
  /\ gemini.calls[1].test /\ gemini.calls[1].result = "error"
  /\ ~gemini.calls[2].mock
  /\ CannedCall(gemini.calls[3])

Derived == fnOut # <<>> /\ Val(fnIn).fn = "derive"

\* C30: for a history of more than 3 points with whole prices >= 0, the
\* derived prediction has expectedChange in [-15, 12], confidence in
\* [65, 92] and targetPrice >= 0; it is "rise" exactly when expectedChange
\* is above 2, "fall" exactly when it is below -2 and "stable" otherwise;
\* the target is at least the last price on a rise and at most the last
\* price on a fall.
C30_DerivedPredictionBounds ==
  Derived
    => LET p == Val(fnOut)
           last == Last(Val(fnIn).history).price
       IN /\ -15 <= p.expectedChange /\ p.expectedChange <= 12
          /\ 65 <= p.confidence /\ p.confidence <= 92
          /\ p.targetPrice >= 0
          /\ (p.prediction = "rise") <=> (p.expectedChange > 2)
          /\ (p.prediction = "fall") <=> (p.expectedChange < -2)
          /\ p.prediction \in {"rise", "fall", "stable"}
          /\ p.prediction = "rise" => p.targetPrice >= last
          /\ p.prediction = "fall" => p.targetPrice <= last

\* A history longer than the slice of 6 that rose from 0 to 100: the
\* average step of 20 percent is bounded to 12 and the target is 112.
C30_Witness ==
  /\ Derived
  /\ Len(Val(fnIn).history) > 6
  /\ Last(Val(fnIn).history).price = 1000
  /\ Val(fnOut).prediction = "rise"
  /\ Val(fnOut).expectedChange = 12
  /\ Val(fnOut).targetPrice = 1120

====
